---- MODULE Spec2Model ----
(***************************************************************************)
(* The tool-calling conversation orchestrator of the Ollama/MCP client     *)
(* (ollamaApp.ts and mcpClient.ts, kept in src/unnamed/part_002).          *)
(*                                                                         *)
(* Spec        the session: main -> setup -> interactiveChat -> cleanup,   *)
(*             one action per stretch of code between two awaits.          *)
(* SpecDecode  OllamaAPIClient._processResponse alone, one action per      *)
(*             iteration of its loop, over bounded sequences of lines.     *)
(*                                                                         *)
(* JavaScript strings are TLA+ strings.  A value that is a string or an    *)
(* object is a record tagged with its typeof.                              *)
(***************************************************************************)
EXTENDS Integers, Sequences, FiniteSets, TLC

VARIABLES
    pc,          \* where the single thread of control is suspended
    messages,    \* interactiveChat: const messages: MessageType[]
    modelName,   \* interactiveChat: let modelName
    models,      \* interactiveChat: const models, <<>> before the listing
    toolsMCP,    \* OllamaAgent.toolsMCP
    client,      \* MCPClient.client is not null
    transport,   \* MCPClient.transport is not null
    link,        \* the SDK Client's session with the tool-provider process
    frame,       \* the locals of the running processFunctionCall
    depth,       \* number of processFunctionCall activations on the stack
    request,     \* the body of the last POST /api/chat
    chatCall,    \* what the last OllamaAPIClient.chat did
    response,    \* what the last agent.chat returned to its caller
    dispatch,    \* what the last executeFunction called
    lines,       \* _processResponse: const lines
    idx,         \* _processResponse: position of the for loop
    fullResponse,\* _processResponse: let fullResponse
    decoded,     \* _processResponse: the value returned
    gateway,     \* MCPClient used on its own: the call pending, the last call
    inflight,    \* the requests sent and not yet answered, oldest first
    turnCalls,   \* the invocations the model asked for in the current turn
    catalog,     \* ToolManager used on its own: its list, the last two calls
    server       \* a tool handler of a server used on its own: its locals

vars == <<pc, messages, modelName, models, toolsMCP, client, transport, link, frame,
          depth, request, chatCall, response, dispatch,
          lines, idx, fullResponse, decoded, gateway, inflight, turnCalls,
          catalog, server>>

sessionVars == <<pc, messages, modelName, models, toolsMCP, client, transport, link,
                 frame, depth, request, chatCall, response, dispatch,
                 inflight, turnCalls>>

logVars == <<inflight, turnCalls>>

decodeVars == <<lines, idx, fullResponse, decoded>>

gatewayVars == <<gateway>>
catalogVars == <<catalog>>
serverVars == <<server>>

(***************************************************************************)
(* Bounds of the model.                                                    *)
(***************************************************************************)
\* The model stops offering user input and tool calls at this history length.
MaxMessages == 6
\* Longest response body, in lines, that SpecDecode decodes.
MaxLines == 3
\* Number of MCPClient calls SpecGateway makes on one MCPClient.
MaxCalls == 4
\* Number of getAllTools calls SpecCatalog makes on one ToolManager.
MaxCatalogCalls == 4

(***************************************************************************)
(* Constants of the program.                                               *)
(***************************************************************************)
SYSTEM == "system"
USER == "user"
ASSISTANT == "assistant"
TOOL == "tool"

DEFAULT_MODEL == "mistral:latest"

SYSTEM_PROMPT ==
    "Eres un agente que consultará las tools que están disponibles en la conversación"

\* JavaScript's null where a string is expected (MessageType.content).
null == "\\null"

\* String.prototype.startsWith and String.prototype.substring(start).
startsWith(s, prefix) ==
    /\ Len(s) >= Len(prefix)
    /\ SubSeq(s, 1, Len(prefix)) = prefix

substring(s, start) == SubSeq(s, start + 1, Len(s))

(***************************************************************************)
(* Values returned by OllamaAPIClient.chat: a string, or                   *)
(* { type: "function_call", function_call }.                               *)
(***************************************************************************)
StringResult(s) == [type |-> "string", value |-> s]

FunctionCallResult(functionCall) ==
    [type |-> "function_call", function_call |-> functionCall]

\* No value yet: the call has not returned.
Pending == [type |-> "pending"]

(***************************************************************************)
(* One line of the response body, as the loop of _processResponse sees it. *)
(*   json            "error": JSON.parse throws; "null": it yields a value *)
(*                   whose property access throws; "object": an object     *)
(*   message         respJson.message is truthy                            *)
(*   has_tool_calls  respJson.message.tool_calls is truthy (an array)      *)
(*   tool_calls      that array                                            *)
(*   content         respJson.message.content, "" when absent              *)
(***************************************************************************)
ResponseLine(json, message, has_tool_calls, tool_calls, content) ==
    [json |-> json, message |-> message, has_tool_calls |-> has_tool_calls,
     tool_calls |-> tool_calls, content |-> content]

GarbageLine == ResponseLine("error", FALSE, FALSE, <<>>, "")
NullLine == ResponseLine("null", FALSE, FALSE, <<>>, "")
NoMessageLine == ResponseLine("object", FALSE, FALSE, <<>>, "")
ContentLine(content) == ResponseLine("object", TRUE, FALSE, <<>>, content)
ToolCallsLine(tool_calls, content) ==
    ResponseLine("object", TRUE, TRUE, tool_calls, content)

\* interface ToolCall
ToolCall(id, name, arguments) ==
    [id |-> id, function |-> [name |-> name, arguments |-> arguments]]

\* an element of tool_calls that lacks its function field
BareCall == [id |-> "bare"]

\* functionCall.function is defined
HasFunction(functionCall) == "function" \in DOMAIN functionCall

\* function.arguments: string | Record<string, any>, by its typeof
ObjectArguments(value) == [type |-> "object", value |-> value]
StringArguments(text) == [type |-> "string", value |-> text]

(***************************************************************************)
(* The body of the for loop of _processResponse, for one line.             *)
(* returned: the loop executed a return statement, with value.             *)
(***************************************************************************)
\* Variant: a line that fails to parse ends the decoding.
ProcessLineAbortOnError(acc, line) ==
    IF line.json # "object"
    THEN [returned |-> TRUE, value |-> StringResult(acc), fullResponse |-> acc]
    ELSE IF line.message /\ line.has_tool_calls /\ Len(line.tool_calls) > 0
    THEN [returned |-> TRUE,
          value |-> FunctionCallResult(line.tool_calls[1]),
          fullResponse |-> acc]
    ELSE IF line.message /\ line.content # ""
    THEN [returned |-> FALSE, value |-> Pending,
          fullResponse |-> acc \o line.content]
    ELSE [returned |-> FALSE, value |-> Pending, fullResponse |-> acc]

\* Variant: a line with content is taken as text, tool calls or not.
ProcessLineNoShortCircuit(acc, line) ==
    IF line.json # "object"
    THEN [returned |-> FALSE, value |-> Pending, fullResponse |-> acc]
    ELSE IF line.message /\ line.has_tool_calls /\ Len(line.tool_calls) > 0
            /\ ~(line.message /\ line.content # "")
    THEN [returned |-> TRUE,
          value |-> FunctionCallResult(line.tool_calls[1]),
          fullResponse |-> acc]
    ELSE IF line.message /\ line.content # ""
    THEN [returned |-> FALSE, value |-> Pending,
          fullResponse |-> acc \o line.content]
    ELSE [returned |-> FALSE, value |-> Pending, fullResponse |-> acc]

\* Variant: the content replaces what was accumulated.
ProcessLineOverwrite(acc, line) ==
    IF line.json # "object"
    THEN [returned |-> FALSE, value |-> Pending, fullResponse |-> acc]
    ELSE IF line.message /\ line.has_tool_calls /\ Len(line.tool_calls) > 0
    THEN [returned |-> TRUE,
          value |-> FunctionCallResult(line.tool_calls[1]),
          fullResponse |-> acc]
    ELSE IF line.message /\ line.content # ""
    THEN [returned |-> FALSE, value |-> Pending,
          fullResponse |-> line.content]
    ELSE [returned |-> FALSE, value |-> Pending, fullResponse |-> acc]

\* Variant: the last invocation of the line is taken, not the first.
ProcessLineLastCall(acc, line) ==
    IF line.json # "object"
    THEN [returned |-> FALSE, value |-> Pending, fullResponse |-> acc]
    ELSE IF line.message /\ line.has_tool_calls /\ Len(line.tool_calls) > 0
    THEN [returned |-> TRUE,
          value |-> FunctionCallResult(line.tool_calls[Len(line.tool_calls)]),
          fullResponse |-> acc]
    ELSE IF line.message /\ line.content # ""
    THEN [returned |-> FALSE, value |-> Pending,
          fullResponse |-> acc \o line.content]
    ELSE [returned |-> FALSE, value |-> Pending, fullResponse |-> acc]

ProcessLine(acc, line) ==
    IF line.json # "object"
    THEN \* JSON.parse, or respJson.message on null, throws: catch, continue
         [returned |-> FALSE, value |-> Pending, fullResponse |-> acc]
    ELSE IF line.message /\ line.has_tool_calls /\ Len(line.tool_calls) > 0
    THEN \* functionCall = tool_calls[0] is truthy
         [returned |-> TRUE,
          value |-> FunctionCallResult(line.tool_calls[1]),
          fullResponse |-> acc]
    ELSE IF line.message /\ line.content # ""
    THEN [returned |-> FALSE, value |-> Pending,
          fullResponse |-> acc \o line.content]
    ELSE [returned |-> FALSE, value |-> Pending, fullResponse |-> acc]

RECURSIVE ProcessFrom(_, _, _)
ProcessFrom(ls, i, acc) ==
    IF i > Len(ls)
    THEN StringResult(acc)
    ELSE LET step == ProcessLine(acc, ls[i])
         IN  IF step.returned
             THEN step.value
             ELSE ProcessFrom(ls, i + 1, step.fullResponse)

\* OllamaAPIClient._processResponse, on the lines of responseText
_processResponse(ls) == ProcessFrom(ls, 1, "")

(***************************************************************************)
(* JSON.parse and JSON.stringify on the texts and values of the model.     *)
(* A mapping is the set of its <<key, value text>> pairs.                  *)
(***************************************************************************)
\* JavaScript values an invocation's arguments can be: an object with its
\* entries (a set of <<key, value text>>), null, a number or a string
Mapping(entries) == [json |-> "object", entries |-> entries]
JSnull == [json |-> "null"]
JSnumber(text) == [json |-> "number", text |-> text]

EmptyMapping == Mapping({})

LcmArgumentsText == "{\"numbers\":[4,6]}"
LcmArguments == Mapping({<<"numbers", "[4,6]">>})
MalformedText == "{numbers"
NumberText == "5"

\* a JavaScript string as a value
JSstring(text) == [json |-> "string", text |-> text]

\* the inside of a JSON string literal is well formed from position i on:
\* no bare quote, every backslash followed by a quote or a backslash
RECURSIVE LiteralOk(_, _)
LiteralOk(s, i) ==
    IF i > Len(s)
    THEN TRUE
    ELSE LET c == SubSeq(s, i, i)
         IN  IF c = "\""
             THEN FALSE
             ELSE IF c = "\\"
             THEN /\ i < Len(s)
                  /\ SubSeq(s, i + 1, i + 1) \in {"\"", "\\"}
                  /\ LiteralOk(s, i + 2)
             ELSE LiteralOk(s, i + 1)

\* the string a well-formed JSON string literal's inside stands for
RECURSIVE UnescapeFrom(_, _)
UnescapeFrom(s, i) ==
    IF i > Len(s)
    THEN ""
    ELSE IF SubSeq(s, i, i) = "\\"
    THEN SubSeq(s, i + 1, i + 1) \o UnescapeFrom(s, i + 2)
    ELSE SubSeq(s, i, i) \o UnescapeFrom(s, i + 1)

IsStringLiteral(text) ==
    /\ Len(text) >= 2
    /\ SubSeq(text, 1, 1) = "\""
    /\ SubSeq(text, Len(text), Len(text)) = "\""
    /\ LiteralOk(SubSeq(text, 2, Len(text) - 1), 1)

\* JSON.parse(text): threw, or the value
JSONparse(text) ==
    IF text = LcmArgumentsText
    THEN [threw |-> FALSE, value |-> LcmArguments]
    ELSE IF text = NumberText
    THEN [threw |-> FALSE, value |-> JSnumber(text)]
    ELSE IF IsStringLiteral(text)
    THEN [threw |-> FALSE,
          value |-> JSstring(UnescapeFrom(SubSeq(text, 2, Len(text) - 1), 1))]
    ELSE [threw |-> TRUE, value |-> EmptyMapping]

RECURSIVE EscapeFrom(_, _)
EscapeFrom(s, i) ==
    IF i > Len(s)
    THEN ""
    ELSE LET c == SubSeq(s, i, i)
         IN  (IF c = "\"" THEN "\\\""
              ELSE IF c = "\\" THEN "\\\\"
              ELSE c) \o EscapeFrom(s, i + 1)

\* JSON.stringify of a string: the quoted, escaped literal
JSONstringifyString(s) == "\"" \o EscapeFrom(s, 1) \o "\""

\* Variant: the text of the payload, not its serialization.
JSONstringifyResultTextOnly(result) == result.text

\* JSON.stringify of the result payload of a tool call (CallToolResult)
JSONstringifyResult(result) ==
    "{\"content\":[{\"type\":\"text\",\"text\":"
        \o JSONstringifyString(result.text) \o "}]"
        \o (IF result.isError THEN ",\"isError\":true" ELSE "") \o "}"

\* `${error}` of an Error with this message
ErrorString(message) == "Error: " \o message

(***************************************************************************)
(* ToolManager                                                             *)
(***************************************************************************)
\* A tool descriptor of the tool-provider; "" stands for an absent field.
McpTool(name, description, inputSchema) ==
    [name |-> name, description |-> description, inputSchema |-> inputSchema]

\* OllamaAgent.toolsMCP: null, or the object listTools returned
NullTools == [isNull |-> TRUE, tools |-> <<>>]
ListedTools(tools) == [isNull |-> FALSE, tools |-> tools]

\* ToolManager.builtInTools, set to [] by the constructor and never changed
builtInTools == <<>>

McpPrefix == "mcp_"

ToolDefinition(name, description, parameters) ==
    [type |-> "function",
     function |-> [name |-> name, description |-> description,
                   parameters |-> parameters]]

\* Variant: the name is advertised as the tool-provider gave it.
ConvertMcpToolUnprefixed(mcpTool) ==
    ToolDefinition(
        mcpTool.name,
        IF mcpTool.description # "" THEN mcpTool.description
                                    ELSE "MCP tool: " \o mcpTool.name,
        IF mcpTool.inputSchema # "" THEN mcpTool.inputSchema
                                    ELSE "{\"type\":\"object\"}")

\* the object pushed for one mcpTool in getAllTools
ConvertMcpTool(mcpTool) ==
    ToolDefinition(
        McpPrefix \o mcpTool.name,
        IF mcpTool.description # "" THEN mcpTool.description
                                    ELSE "MCP tool: " \o mcpTool.name,
        IF mcpTool.inputSchema # "" THEN mcpTool.inputSchema
                                    ELSE "{\"type\":\"object\"}")

\* an object without a tools list
NoToolsList == [isNull |-> FALSE]

\* if (mcpTools && mcpTools.tools); an empty array is truthy
HasToolsList(mcpTools) == ~mcpTools.isNull /\ "tools" \in DOMAIN mcpTools

\* Variant: tools is this.builtInTools itself, not a copy of it.
GetAllToolsCallAliased(local, mcpTools) ==
    LET tools == IF HasToolsList(mcpTools)
                 THEN local \o [i \in 1..Len(mcpTools.tools) |->
                                   ConvertMcpTool(mcpTools.tools[i])]
                 ELSE local
    IN  [builtInTools |-> tools, mcpTools |-> mcpTools, tools |-> tools]

\* The body of getAllTools on a ToolManager whose list is local: what it
\* leaves in this.builtInTools and in its argument, and what it returns.
\* The pushes go to the copy [...this.builtInTools].
GetAllToolsCall(local, mcpTools) ==
    LET tools == IF HasToolsList(mcpTools)
                 THEN local \o [i \in 1..Len(mcpTools.tools) |->
                                   ConvertMcpTool(mcpTools.tools[i])]
                 ELSE local
    IN  [builtInTools |-> local, mcpTools |-> mcpTools, tools |-> tools]

\* ToolManager.getAllTools
getAllTools(mcpTools) == GetAllToolsCall(builtInTools, mcpTools).tools

\* ToolManager used on its own: no call yet
NoCatalogCall ==
    [builtInTools |-> builtInTools, given |-> NullTools, mcpTools |-> NullTools,
     tools |-> <<>>, before |-> [given |-> NullTools, tools |-> <<>>],
     calls |-> 0]

\* no tool handler of a server has been called
NoServerCall == [tool |-> "none"]

(***************************************************************************)
(* Messages of the history (interface MessageType).                        *)
(***************************************************************************)
TextMessage(role, content) == [role |-> role, content |-> content]

\* Variant: the content of the invocation message is "" instead of null.
AssistantCallMessageEmptyContent(id, name, arguments) ==
    [role |-> ASSISTANT, content |-> "",
     tool_calls |-> <<ToolCall(id, name, arguments)>>]

AssistantCallMessage(id, name, arguments) ==
    [role |-> ASSISTANT, content |-> null,
     tool_calls |-> <<ToolCall(id, name, arguments)>>]

ToolMessage(id, name, content) ==
    [role |-> TOOL, tool_call_id |-> id, name |-> name, content |-> content]

HasToolCalls(m) == "tool_calls" \in DOMAIN m

(***************************************************************************)
(* What the environment can do.                                            *)
(***************************************************************************)
\* tool lists the tool-provider may answer listTools with
ProviderCatalogs ==
    { <<McpTool("lcm", "Calculate the least common multiple", "{}")>>,
      <<McpTool("mcp_x", "", ""), McpTool("lcm", "", "{}")>> }

\* data.models of an answer of GET /api/tags: the names of the models
ModelLists == { <<>>, <<"llama3", DEFAULT_MODEL>>, <<"llama3", "phi3">> }

\* what one GET /api/tags can come to
ListModelsOutcomes ==
    { [kind |-> k, models |-> <<>>] :
         k \in {"fetch throws", "status not 200", "json throws",
                "models absent"} }
    \cup { [kind |-> "ok", models |-> listed] : listed \in ModelLists }

\* OllamaAPIClient.listModels: data.models || [], and [] on every failure
listModels(outcome) ==
    IF outcome.kind = "ok" THEN outcome.models ELSE <<>>

\* lines typed by the user
UserInputs == { "compute lcm of 4 and 6", "/salir", "/EXIT", "/Quit" }

\* String.prototype.toLowerCase on the user inputs
toLowerCase(s) ==
    IF s = "/EXIT" THEN "/exit" ELSE IF s = "/Quit" THEN "/quit" ELSE s

ExitCommands == { "/salir", "/exit", "/quit" }

\* names the model may ask for
FunctionNames == { "mcp_lcm", "mcp_mcp_x", "remote_lcm", "lcm", "ghost" }

\* arguments the model may give
FunctionArguments ==
    { ObjectArguments(LcmArguments), StringArguments(LcmArgumentsText),
      StringArguments(MalformedText) }

\* arguments that are no mapping: null (typeof 'object') and the text of a
\* number
OddArguments == { ObjectArguments(JSnull), StringArguments(NumberText) }

\* tool invocations the model may answer with
ModelCalls ==
    { ToolCall("x", n, a) : n \in FunctionNames, a \in FunctionArguments }
    \cup { ToolCall("x", "mcp_lcm", a) : a \in OddArguments }

\* a response body with two invocations in one line and a third in the
\* next line
SeveralCalls ==
    << ToolCallsLine(<< ToolCall("first", "mcp_lcm",
                                 ObjectArguments(LcmArguments)),
                        ToolCall("second", "mcp_second",
                                 ObjectArguments(LcmArguments)) >>, ""),
       ToolCallsLine(<< ToolCall("third", "ghost_third",
                                 ObjectArguments(EmptyMapping)) >>, "") >>

\* response bodies of POST /api/chat with status 200
ChatBodies ==
    { <<ContentLine("A"), GarbageLine, ContentLine("B")>>,
      <<NoMessageLine>>,
      SeveralCalls,
      <<ToolCallsLine(<<BareCall>>, "")>> }
    \cup { <<ContentLine("ignored"), ToolCallsLine(<<c>>, "")>> : c \in ModelCalls }

\* what one POST /api/chat can come to
ChatOutcomes ==
    { [kind |-> "fetch throws", lines |-> <<>>],
      [kind |-> "status not 200", lines |-> <<>>],
      [kind |-> "status not 200, text throws", lines |-> <<>>],
      [kind |-> "text throws", lines |-> <<>>] }
    \cup { [kind |-> "ok", lines |-> b] : b \in ChatBodies }

\* what one callTool can come to: a result payload, or an error thrown
CallToolOutcomes ==
    { [threw |-> FALSE, text |-> "12", isError |-> FALSE, message |-> ""],
      [threw |-> TRUE, text |-> "", isError |-> FALSE,
       message |-> "MCP error -32602: Tool not found"] }

(***************************************************************************)
(* OllamaAPIClient.chat: the value returned, whether it raised instead,    *)
(* and the number of requests it issued.                                   *)
(***************************************************************************)
\* Variant: only a failing fetch is caught.
OllamaChatThrowOnStatus(outcome) ==
    IF outcome.kind = "ok"
    THEN [value |-> _processResponse(outcome.lines), raised |-> FALSE,
          fetches |-> 1, kind |-> outcome.kind]
    ELSE IF outcome.kind = "fetch throws"
    THEN [value |-> StringResult(""), raised |-> FALSE, fetches |-> 1,
          kind |-> outcome.kind]
    ELSE [value |-> Pending, raised |-> TRUE, fetches |-> 1,
          kind |-> outcome.kind]

OllamaChat(outcome) ==
    IF outcome.kind = "fetch throws"
    THEN \* catch: return ""
         [value |-> StringResult(""), raised |-> FALSE, fetches |-> 1,
          kind |-> outcome.kind]
    ELSE IF outcome.kind \in {"status not 200", "status not 200, text throws"}
    THEN \* return "", from the if or (response.text() throwing) the catch
         [value |-> StringResult(""), raised |-> FALSE, fetches |-> 1,
          kind |-> outcome.kind]
    ELSE IF outcome.kind = "text throws"
    THEN \* status 200, response.text() throws: catch, return ""
         [value |-> StringResult(""), raised |-> FALSE, fetches |-> 1,
          kind |-> outcome.kind]
    ELSE [value |-> _processResponse(outcome.lines), raised |-> FALSE,
          fetches |-> 1, kind |-> outcome.kind]

\* Variant: the remote tools are advertised with the first request of a
\* turn only.
ChatRequestToolsOnce(model, msgs, mcpTools) ==
    [model |-> model, messages |-> msgs,
     tools |-> IF msgs[Len(msgs)].role = TOOL
               THEN builtInTools ELSE getAllTools(mcpTools),
     stream |-> FALSE]

\* the body of the request of OllamaAgent.chat
ChatRequest(model, msgs, mcpTools) ==
    [model |-> model, messages |-> msgs, tools |-> getAllTools(mcpTools),
     stream |-> FALSE]

NoRequest == [model |-> "", messages |-> <<>>, tools |-> <<>>, stream |-> FALSE]

NoChatCall == [value |-> Pending, raised |-> FALSE, fetches |-> 0, kind |-> ""]

(***************************************************************************)
(* executeFunction, OllamaAgent.executeMcpTool and MCPClient.executeTool.  *)
(* called records how far the call went:                                   *)
(*   executeMcpTool  agent.executeMcpTool was called                       *)
(*   executeTool     MCPClient.executeTool was called (the gateway)        *)
(*   callTool        client.callTool was sent to the tool-provider         *)
(*   toolName        the name passed along, "" when nothing was called     *)
(*   caught          the message of the error executeFunction caught, or "" *)
(***************************************************************************)
NotConnectedMessage == "MCP Client not connected or tools not available"
NoClientMessage == "Cliente no conectado. Llama a connect() primero"

McpErrorText(toolName, message) ==
    "Error ejecutando la herramienta MCP " \o toolName \o ": "
        \o ErrorString(message)

\* Variant: the fixed text of the null-result fallback.
NotImplementedTextFallback(functionName) ==
    "Error: Función no implementada o falló la ejecución"

NotImplementedText(functionName) ==
    "Función " \o functionName \o " no implementada"

Called(functionName, executeMcpTool, executeTool, callTool, toolName, args) ==
    [functionName |-> functionName, executeMcpTool |-> executeMcpTool,
     executeTool |-> executeTool, callTool |-> callTool,
     toolName |-> toolName, args |-> args, caught |-> ""]

NothingCalled == Called("", FALSE, FALSE, FALSE, "", EmptyMapping)

\* Variant: the prefix is cut one character short.
actualToolNameKeepsUnderscore(functionName) == substring(functionName, 3)

\* const actualToolName
actualToolName(functionName) == substring(functionName, 4)

\* Variant: executeMcpTool does not test this.toolsMCP.
ExecuteFunctionStartNoCatalogTest(functionName, functionArgs, mcpTools, hasClient) ==
    IF startsWith(functionName, McpPrefix)
    THEN LET toolName == actualToolName(functionName)
         IN  IF ~hasClient
             THEN [returned |-> TRUE,
                   result |-> McpErrorText(toolName, NoClientMessage),
                   called |-> [Called(functionName, TRUE, TRUE, FALSE,
                                      toolName, functionArgs)
                                  EXCEPT !.caught = NoClientMessage]]
             ELSE [returned |-> FALSE, result |-> "",
                   called |-> Called(functionName, TRUE, TRUE, TRUE,
                                     toolName, functionArgs)]
    ELSE [returned |-> TRUE, result |-> NotImplementedText(functionName),
          called |-> Called(functionName, FALSE, FALSE, FALSE, "",
                            EmptyMapping)]

\* executeFunction up to its first suspension: either it has returned
\* (returned, result) or client.callTool is awaited.
ExecuteFunctionStart(functionName, functionArgs, mcpTools, hasClient) ==
    IF startsWith(functionName, McpPrefix)
    THEN LET toolName == actualToolName(functionName)
         IN  IF mcpTools.isNull
             THEN \* executeMcpTool throws: !this.toolsMCP
                  [returned |-> TRUE,
                   result |-> McpErrorText(toolName, NotConnectedMessage),
                   called |-> [Called(functionName, TRUE, FALSE, FALSE,
                                      toolName, functionArgs)
                                  EXCEPT !.caught = NotConnectedMessage]]
             ELSE IF ~hasClient
             THEN \* MCPClient.executeTool throws: !this.client
                  [returned |-> TRUE,
                   result |-> McpErrorText(toolName, NoClientMessage),
                   called |-> [Called(functionName, TRUE, TRUE, FALSE,
                                      toolName, functionArgs)
                                  EXCEPT !.caught = NoClientMessage]]
             ELSE [returned |-> FALSE, result |-> "",
                   called |-> Called(functionName, TRUE, TRUE, TRUE,
                                     toolName, functionArgs)]
    ELSE [returned |-> TRUE, result |-> NotImplementedText(functionName),
          called |-> Called(functionName, FALSE, FALSE, FALSE, "",
                            EmptyMapping)]

\* Variant: the caught error is passed on bare.
ExecuteFunctionEndBareError(toolName, outcome) ==
    IF outcome.threw
    THEN outcome.message
    ELSE JSONstringifyResult(outcome)

\* executeFunction from the return of client.callTool on
ExecuteFunctionEnd(toolName, outcome) ==
    IF outcome.threw
    THEN McpErrorText(toolName, outcome.message)
    ELSE JSONstringifyResult(outcome)

(***************************************************************************)
(* processFunctionCall: its locals.                                        *)
(***************************************************************************)
\* let functionArgs, after the try/catch around JSON.parse
ParseArguments(arguments) ==
    IF arguments.type = "object"
    THEN arguments.value
    ELSE LET parsed == JSONparse(arguments.value)
         IN  IF parsed.threw THEN EmptyMapping ELSE parsed.value

\* Variant: the id is numbered by the turn, not by the history length.
functionCallIdOfTurn(msgs) ==
    "call_" \o ToString(Cardinality({i \in 1..Len(msgs) : msgs[i].role = USER}))

\* const functionCallId
functionCallId(msgs) == "call_" \o ToString(Len(msgs))

\* the arguments written into the assistant message
RecordedArguments(arguments) ==
    IF arguments.type # "object"
    THEN StringArguments(JSONstringifyString(arguments.value))
    ELSE arguments

NoFrame == [active |-> FALSE]

\* no result payload
NoPayload == [none |-> TRUE]

\* the result payload (CallToolResult) of an outcome of callTool
Payload(outcome) == [text |-> outcome.text, isError |-> outcome.isError]

\* no outcome of callTool
NoOutcome == [threw |-> FALSE, text |-> "", isError |-> FALSE, message |-> ""]

\* MCPClient used on its own: nothing pending, nothing called yet
NoGatewayCall ==
    [pending |-> "none", op |-> "", returned |-> "", raised |-> FALSE,
     connected |-> FALSE, sdkCalled |-> FALSE, calls |-> 0,
     toolName |-> "", args |-> EmptyMapping, sent |-> <<>>,
     provided |-> NoOutcome, payload |-> NoPayload]

\* the locals once executeFunction has been called
Frame(functionCall, msgs, functionResult) ==
    [active |-> TRUE,
     functionCall |-> functionCall,
     functionName |-> functionCall.function.name,
     functionArgs |-> ParseArguments(functionCall.function.arguments),
     functionCallId |-> functionCallId(msgs),
     functionResult |-> functionResult]

\* Variant: the two messages in the other order.
ResultMessagesToolFirst(f) ==
    << ToolMessage(f.functionCallId, f.functionName, f.functionResult),
       AssistantCallMessage(f.functionCallId, f.functionName,
                            RecordedArguments(f.functionCall.function.arguments)) >>

\* the two messages pushed once the function has returned
ResultMessages(f) ==
    << AssistantCallMessage(f.functionCallId, f.functionName,
                            RecordedArguments(f.functionCall.function.arguments)),
       ToolMessage(f.functionCallId, f.functionName, f.functionResult) >>

(***************************************************************************)
(* The session.                                                            *)
(***************************************************************************)
Init ==
    /\ pc = "checkConnection"     \* main: new OllamaAgent(), agent.setup()
    /\ messages = <<>>
    /\ modelName = DEFAULT_MODEL
    /\ models = <<>>
    /\ toolsMCP = NullTools
    /\ client = FALSE
    /\ transport = FALSE
    /\ link = "none"
    /\ frame = NoFrame
    /\ depth = 0
    /\ request = NoRequest
    /\ chatCall = NoChatCall
    /\ response = Pending
    /\ dispatch = NothingCalled
    /\ lines = <<>>
    /\ idx = 0
    /\ fullResponse = ""
    /\ decoded = Pending
    /\ gateway = NoGatewayCall
    /\ inflight = <<>>
    /\ turnCalls = <<>>
    /\ catalog = NoCatalogCall
    /\ server = NoServerCall

\* setup: checkConnection returns or throws; then MCPClient.connect up to
\* await this.client.connect(this.transport)
CheckConnection ==
    /\ pc = "checkConnection"
    /\ \E reachable \in BOOLEAN :
          IF reachable
          THEN /\ transport' = TRUE
               /\ client' = TRUE
               /\ pc' = "connect"
          ELSE /\ pc' = "exited"          \* process.exit(1)
               /\ UNCHANGED <<client, transport>>
    /\ UNCHANGED <<messages, modelName, models, toolsMCP, link, frame, depth, request,
                   chatCall, response, dispatch, decodeVars,
                   gatewayVars, catalogVars, serverVars, logVars>>

\* MCPClient.connect: the handshake succeeded (return true; setup awaits
\* listTools) or failed (catch: await this.disconnect(), awaiting close)
ConnectReturn ==
    /\ pc = "connect"
    /\ \E ok \in BOOLEAN :
          IF ok
          THEN /\ link' = "up"
               /\ pc' = "listTools"
          ELSE /\ link' = link
               /\ pc' = "connect close"
    /\ UNCHANGED <<messages, modelName, models, toolsMCP, client, transport, frame,
                   depth, request, chatCall, response, dispatch, decodeVars,
                   gatewayVars, catalogVars, serverVars, logVars>>

\* Variant: this.client is cleared before close() is awaited.
DisconnectEndClientFirst(closeThrew) ==
    IF closeThrew
    THEN /\ client' = FALSE
         /\ UNCHANGED <<transport, link>>
    ELSE /\ client' = FALSE
         /\ transport' = FALSE
         /\ link' = "closed"

\* MCPClient.disconnect from the return of this.client.close() on
DisconnectEnd(closeThrew) ==
    IF closeThrew
    THEN UNCHANGED <<client, transport, link>>
    ELSE /\ client' = FALSE
         /\ transport' = FALSE
         /\ link' = "closed"

\* connect's disconnect ends, connect returns false, setup ends,
\* interactiveChat awaits agent.listModels()
ConnectCloseReturn ==
    /\ pc = "connect close"
    /\ \E closeThrew \in BOOLEAN : DisconnectEnd(closeThrew)
    /\ pc' = "listModels"
    /\ UNCHANGED <<messages, modelName, models, toolsMCP, frame, depth, request,
                   chatCall, response, dispatch, decodeVars,
                   gatewayVars, catalogVars, serverVars, logVars>>

\* Variant: a failing listTools is not caught; main ends with exit(1).
ListToolsReturnAborts ==
    /\ pc = "listTools"
    /\ \/ /\ \E tools \in ProviderCatalogs : toolsMCP' = ListedTools(tools)
          /\ pc' = "listModels"
       \/ /\ toolsMCP' = NullTools
          /\ pc' = "exited"
    /\ UNCHANGED <<messages, modelName, models, client, transport, link, frame, depth,
                   request, chatCall, response, dispatch, decodeVars,
                   gatewayVars, catalogVars, serverVars, logVars>>

\* setup: listTools returned the tools or threw; interactiveChat awaits
\* agent.listModels()
ListToolsReturn ==
    /\ pc = "listTools"
    /\ \/ \E tools \in ProviderCatalogs : toolsMCP' = ListedTools(tools)
       \/ toolsMCP' = NullTools
    /\ pc' = "listModels"
    /\ UNCHANGED <<messages, modelName, models, client, transport, link, frame, depth,
                   request, chatCall, response, dispatch, decodeVars,
                   gatewayVars, catalogVars, serverVars, logVars>>

\* MCPClient.disconnect up to await this.client.close(), called by cleanup
Cleanup ==
    IF client
    THEN /\ pc' = "close"
         /\ UNCHANGED <<client, transport, link>>
    ELSE /\ transport' = FALSE
         /\ pc' = "done"
         /\ UNCHANGED <<client, link>>

\* Variant: the first listed model is used even when the default is
\* listed.
ListModelsReturnFirstListed ==
    /\ pc = "listModels"
    /\ \E outcome \in ListModelsOutcomes :
          LET listed == listModels(outcome)
          IN  /\ models' = listed
              /\ IF Len(listed) > 0
                 THEN /\ modelName' = listed[1]
                      /\ messages' = <<TextMessage(SYSTEM, SYSTEM_PROMPT)>>
                      /\ pc' = "ask"
                      /\ UNCHANGED <<client, transport, link>>
                 ELSE /\ UNCHANGED <<modelName, messages>>
                      /\ Cleanup
    /\ UNCHANGED <<toolsMCP, frame, depth, request, chatCall, response,
                   dispatch, decodeVars,
                   gatewayVars, catalogVars, serverVars, logVars>>

\* interactiveChat: the models are listed; choose modelName, seed the
\* history and ask, or return when there is no model
ListModelsReturn ==
    /\ pc = "listModels"
    /\ \E outcome \in ListModelsOutcomes :
          LET listed == listModels(outcome)
          IN  /\ models' = listed
              /\ IF \E i \in 1..Len(listed) : listed[i] = DEFAULT_MODEL
                 THEN /\ modelName' = DEFAULT_MODEL
                      /\ messages' = <<TextMessage(SYSTEM, SYSTEM_PROMPT)>>
                      /\ pc' = "ask"
                      /\ UNCHANGED <<client, transport, link>>
                 ELSE IF Len(listed) > 0
                 THEN /\ modelName' = listed[1]
                      /\ messages' = <<TextMessage(SYSTEM, SYSTEM_PROMPT)>>
                      /\ pc' = "ask"
                      /\ UNCHANGED <<client, transport, link>>
                 ELSE /\ UNCHANGED <<modelName, messages>>
                      /\ Cleanup
    /\ UNCHANGED <<toolsMCP, frame, depth, request, chatCall, response,
                   dispatch, decodeVars,
                   gatewayVars, catalogVars, serverVars, logVars>>

\* cleanup: this.client.close() returned or threw
CloseReturn ==
    /\ pc = "close"
    /\ \E closeThrew \in BOOLEAN : DisconnectEnd(closeThrew)
    /\ pc' = "done"
    /\ UNCHANGED <<messages, modelName, models, toolsMCP, frame, depth, request,
                   chatCall, response, dispatch, decodeVars,
                   gatewayVars, catalogVars, serverVars, logVars>>

\* the requests still unanswered once the oldest op has been answered
Answered(ops, op) ==
    IF \E i \in 1..Len(ops) : ops[i] = op
    THEN LET first == CHOOSE i \in 1..Len(ops) :
                          /\ ops[i] = op
                          /\ \A j \in 1..(i - 1) : ops[j] # op
         IN  SubSeq(ops, 1, first - 1) \o SubSeq(ops, first + 1, Len(ops))
    ELSE ops

\* Variant: executeFunction is not awaited, its promise is the result.
ProcessFunctionCallNoAwait(functionCall) ==
    IF ~HasFunction(functionCall)
    THEN /\ depth' = 0
         /\ frame' = NoFrame
         /\ pc' = "ask"
         /\ UNCHANGED <<dispatch, inflight>>
    ELSE
    LET f == Frame(functionCall, messages, "")
        started == ExecuteFunctionStart(f.functionName, f.functionArgs,
                                        toolsMCP, client)
    IN  /\ depth' = depth + 1
        /\ dispatch' = started.called
        /\ frame' = [f EXCEPT !.functionResult =
                         IF started.returned THEN started.result
                         ELSE "[object Promise]"]
        /\ inflight' = IF started.called.callTool
                       THEN Append(inflight, "callTool") ELSE inflight
        /\ pc' = "executed"

\* Variant: no try/catch around the body; the TypeError reaches
\* interactiveChat's catch, which ends the loop.
ProcessFunctionCallUncaught(functionCall) ==
    IF ~HasFunction(functionCall)
    THEN /\ depth' = 0
         /\ frame' = NoFrame
         /\ pc' = IF client THEN "close" ELSE "done"
         /\ UNCHANGED <<dispatch, inflight>>
    ELSE
    LET f == Frame(functionCall, messages, "")
        started == ExecuteFunctionStart(f.functionName, f.functionArgs,
                                        toolsMCP, client)
    IN  /\ depth' = depth + 1
        /\ dispatch' = started.called
        /\ frame' = [f EXCEPT !.functionResult = started.result]
        /\ inflight' = IF started.called.callTool
                       THEN Append(inflight, "callTool") ELSE inflight
        /\ pc' = IF started.returned THEN "executed" ELSE "callTool"

\* processFunctionCall from its entry to the first suspension inside
\* executeFunction: client.callTool awaited, or executeFunction returned.
\* On a record without function, functionCall.function.name throws; the
\* catch logs, this activation returns, and so does every activation that
\* awaits it: interactiveChat asks again
ProcessFunctionCall(functionCall) ==
    IF ~HasFunction(functionCall)
    THEN /\ depth' = 0
         /\ frame' = NoFrame
         /\ pc' = "ask"
         /\ UNCHANGED <<dispatch, inflight>>
    ELSE
    LET f == Frame(functionCall, messages, "")
        started == ExecuteFunctionStart(f.functionName, f.functionArgs,
                                        toolsMCP, client)
    IN  /\ depth' = depth + 1
        /\ dispatch' = started.called
        /\ frame' = [f EXCEPT !.functionResult = started.result]
        /\ inflight' = IF started.called.callTool
                       THEN Append(inflight, "callTool") ELSE inflight
        /\ pc' = IF started.returned THEN "executed" ELSE "callTool"

\* interactiveChat: the user typed a line; an exit command ends the loop
\* (main's finally runs cleanup), anything else is pushed and sent
AskQuestion ==
    /\ pc = "ask"
    /\ \E userMessage \in UserInputs :
          IF toLowerCase(userMessage) \in ExitCommands
          THEN /\ Cleanup
               /\ UNCHANGED <<messages, request, logVars>>
          ELSE /\ Len(messages) < MaxMessages
               /\ messages' = Append(messages, TextMessage(USER, userMessage))
               /\ request' = ChatRequest(modelName, messages', toolsMCP)
               /\ inflight' = Append(inflight, "chat")
               /\ turnCalls' = <<>>
               /\ pc' = "chat"
               /\ UNCHANGED <<client, transport, link>>
    /\ UNCHANGED <<modelName, models, toolsMCP, frame, depth, chatCall, response,
                   dispatch, decodeVars, gatewayVars, catalogVars, serverVars>>

\* the model may answer with a tool call while the history has room for it
Offered(outcome) ==
    \/ outcome.kind # "ok"
    \/ _processResponse(outcome.lines).type # "function_call"
    \/ Len(messages) + 2 <= MaxMessages

\* Variant: chat records the text it got in the history it was given.
ChatReturnRecordsAnswer ==
    /\ pc = "chat"
    /\ \E outcome \in ChatOutcomes :
          /\ Offered(outcome)
          /\ chatCall' = OllamaChat(outcome)
          /\ response' = chatCall'.value
    /\ messages' = IF response'.type = "string" /\ response'.value # ""
                   THEN Append(messages,
                               TextMessage(ASSISTANT, response'.value))
                   ELSE messages
    /\ inflight' = Answered(inflight, "chat")
    /\ turnCalls' = IF /\ response'.type = "function_call"
                       /\ HasFunction(response'.function_call)
                    THEN Append(turnCalls, response'.function_call)
                    ELSE turnCalls
    /\ pc' = "response"
    /\ UNCHANGED <<modelName, models, toolsMCP, client, transport, link,
                   frame, depth, request, dispatch, decodeVars, gatewayVars,
                   catalogVars, serverVars>>

\* OllamaAgent.chat returns to interactiveChat or to processFunctionCall
ChatReturn ==
    /\ pc = "chat"
    /\ \E outcome \in ChatOutcomes :
          /\ Offered(outcome)
          /\ chatCall' = OllamaChat(outcome)
          /\ response' = chatCall'.value
    /\ inflight' = Answered(inflight, "chat")
    /\ turnCalls' = IF /\ response'.type = "function_call"
                       /\ HasFunction(response'.function_call)
                    THEN Append(turnCalls, response'.function_call)
                    ELSE turnCalls
    /\ pc' = "response"
    /\ UNCHANGED <<messages, modelName, models, toolsMCP, client, transport, link,
                   frame, depth, request, dispatch, decodeVars, gatewayVars, catalogVars, serverVars>>

\* interactiveChat: if (response) ... function_call
TopFunctionCall ==
    /\ pc = "response"
    /\ depth = 0
    /\ response.type = "function_call"
    /\ ProcessFunctionCall(response.function_call)
    /\ UNCHANGED <<messages, modelName, models, toolsMCP, client, transport, link,
                   request, chatCall, response, decodeVars, gatewayVars, catalogVars, serverVars,
                   turnCalls>>

\* interactiveChat: if (response) ... typeof response === 'string'
TopText ==
    /\ pc = "response"
    /\ depth = 0
    /\ response.type = "string"
    /\ response.value # ""
    /\ messages' = Append(messages, TextMessage(ASSISTANT, response.value))
    /\ pc' = "ask"
    /\ UNCHANGED <<modelName, models, toolsMCP, client, transport, link, frame, depth,
                   request, chatCall, response, dispatch, decodeVars,
                   gatewayVars, catalogVars, serverVars, logVars>>

\* Variant: the question left unanswered is taken back.
TopNoResponseDropsQuestion ==
    /\ pc = "response"
    /\ depth = 0
    /\ response.type = "string"
    /\ response.value = ""
    /\ messages' = SubSeq(messages, 1, Len(messages) - 1)
    /\ pc' = "ask"
    /\ UNCHANGED <<modelName, models, toolsMCP, client, transport, link,
                   frame, depth, request, chatCall, response, dispatch,
                   decodeVars, gatewayVars, catalogVars, serverVars, logVars>>

\* Variant: the empty answer is pushed as at the re-query.
TopNoResponsePushesEmpty ==
    /\ pc = "response"
    /\ depth = 0
    /\ response.type = "string"
    /\ response.value = ""
    /\ messages' = Append(messages, TextMessage(ASSISTANT, response.value))
    /\ pc' = "ask"
    /\ UNCHANGED <<modelName, models, toolsMCP, client, transport, link,
                   frame, depth, request, chatCall, response, dispatch,
                   decodeVars, gatewayVars, catalogVars, serverVars, logVars>>

\* interactiveChat: else of if (response): "" is falsy
TopNoResponse ==
    /\ pc = "response"
    /\ depth = 0
    /\ response.type = "string"
    /\ response.value = ""
    /\ pc' = "ask"
    /\ UNCHANGED <<messages, modelName, models, toolsMCP, client, transport, link,
                   frame, depth, request, chatCall, response, dispatch,
                   decodeVars, gatewayVars, catalogVars, serverVars, logVars>>

\* executeFunction: client.callTool returned or threw
CallToolReturn ==
    /\ pc = "callTool"
    /\ \E outcome \in CallToolOutcomes :
          /\ frame' = [frame EXCEPT !.functionResult =
                           ExecuteFunctionEnd(dispatch.toolName, outcome)]
          /\ dispatch' = [dispatch EXCEPT !.caught =
                              IF outcome.threw THEN outcome.message ELSE ""]
    /\ inflight' = Answered(inflight, "callTool")
    /\ pc' = "executed"
    /\ UNCHANGED <<messages, modelName, models, toolsMCP, client, transport, link,
                   depth, request, chatCall, response, decodeVars,
                   gatewayVars, catalogVars, serverVars, turnCalls>>

\* Variant: the request is built before the two messages are pushed.
PushResultsAfterChat ==
    /\ pc = "executed"
    /\ messages' = messages \o ResultMessages(frame)
    /\ request' = ChatRequest(modelName, messages, toolsMCP)
    /\ inflight' = Append(inflight, "chat")
    /\ pc' = "chat"
    /\ UNCHANGED <<modelName, models, toolsMCP, client, transport, link, frame, depth,
                   chatCall, response, dispatch, decodeVars, gatewayVars, catalogVars, serverVars,
                   turnCalls>>

\* processFunctionCall: executeFunction returned; push the assistant and
\* the tool message, then await agent.chat(modelName, messages)
PushResults ==
    /\ pc = "executed"
    /\ messages' = messages \o ResultMessages(frame)
    /\ request' = ChatRequest(modelName, messages', toolsMCP)
    /\ inflight' = Append(inflight, "chat")
    /\ pc' = "chat"
    /\ UNCHANGED <<modelName, models, toolsMCP, client, transport, link, frame, depth,
                   chatCall, response, dispatch, decodeVars, gatewayVars, catalogVars, serverVars,
                   turnCalls>>

\* Variant: a function call answered to the re-query is not followed.
FinalFunctionCallNotFollowed ==
    /\ pc = "response"
    /\ depth > 0
    /\ response.type = "function_call"
    /\ depth' = 0
    /\ frame' = NoFrame
    /\ pc' = "ask"
    /\ UNCHANGED <<messages, modelName, models, toolsMCP, client, transport, link,
                   request, chatCall, response, dispatch, decodeVars,
                   gatewayVars, catalogVars, serverVars, logVars>>

\* processFunctionCall: finalResponse is another function call: recursion
FinalFunctionCall ==
    /\ pc = "response"
    /\ depth > 0
    /\ response.type = "function_call"
    /\ ProcessFunctionCall(response.function_call)
    /\ UNCHANGED <<messages, modelName, models, toolsMCP, client, transport, link,
                   request, chatCall, response, decodeVars, gatewayVars, catalogVars, serverVars,
                   turnCalls>>

\* Variant: the final text is returned without being pushed.
FinalTextNotPushed ==
    /\ pc = "response"
    /\ depth > 0
    /\ response.type = "string"
    /\ depth' = 0
    /\ frame' = NoFrame
    /\ pc' = "ask"
    /\ UNCHANGED <<messages, modelName, models, toolsMCP, client, transport, link,
                   request, chatCall, response, dispatch, decodeVars,
                   gatewayVars, catalogVars, serverVars, logVars>>

\* processFunctionCall: typeof finalResponse === 'string': push it; every
\* activation returns and interactiveChat asks again
FinalText ==
    /\ pc = "response"
    /\ depth > 0
    /\ response.type = "string"
    /\ messages' = Append(messages, TextMessage(ASSISTANT, response.value))
    /\ depth' = 0
    /\ frame' = NoFrame
    /\ pc' = "ask"
    /\ UNCHANGED <<modelName, models, toolsMCP, client, transport, link, request,
                   chatCall, response, dispatch, decodeVars,
                   gatewayVars, catalogVars, serverVars, logVars>>

Next ==
    \/ CheckConnection
    \/ ConnectReturn
    \/ ConnectCloseReturn
    \/ ListToolsReturn
    \/ ListModelsReturn
    \/ AskQuestion
    \/ ChatReturn
    \/ TopFunctionCall
    \/ TopText
    \/ TopNoResponse
    \/ CallToolReturn
    \/ PushResults
    \/ FinalFunctionCall
    \/ FinalText
    \/ CloseReturn

Spec == Init /\ [][Next]_vars

(***************************************************************************)
(* _processResponse alone, one iteration of its loop at a time.            *)
(***************************************************************************)
CallF == ToolCall("x", "f", StringArguments("{}"))
CallG == ToolCall("y", "g", ObjectArguments(EmptyMapping))

\* the lines a response body is made of
DecodeLines ==
    { GarbageLine, NullLine, NoMessageLine,
      ContentLine("A"), ContentLine("B"), ContentLine("ignored"),
      ToolCallsLine(<<>>, "B"),
      ToolCallsLine(<<CallF>>, ""),
      ToolCallsLine(<<CallG, CallF>>, "A") }

\* responseText.trim().split('\n') holds at least one line
DecodeInputs ==
    UNION { [1..n -> DecodeLines] : n \in 1..MaxLines }

InitDecode ==
    /\ pc = "checkConnection"
    /\ messages = <<>>
    /\ modelName = DEFAULT_MODEL
    /\ models = <<>>
    /\ toolsMCP = NullTools
    /\ client = FALSE
    /\ transport = FALSE
    /\ link = "none"
    /\ frame = NoFrame
    /\ depth = 0
    /\ request = NoRequest
    /\ chatCall = NoChatCall
    /\ response = Pending
    /\ dispatch = NothingCalled
    /\ lines \in DecodeInputs
    /\ idx = 1
    /\ fullResponse = ""
    /\ decoded = Pending
    /\ gateway = NoGatewayCall
    /\ inflight = <<>>
    /\ turnCalls = <<>>
    /\ catalog = NoCatalogCall
    /\ server = NoServerCall

\* one iteration of for (const line of lines)
DecodeLine ==
    /\ decoded.type = "pending"
    /\ idx <= Len(lines)
    /\ LET step == ProcessLine(fullResponse, lines[idx])
       IN  /\ fullResponse' = step.fullResponse
           /\ decoded' = step.value
           /\ idx' = IF step.returned THEN idx ELSE idx + 1
    /\ UNCHANGED <<lines, sessionVars, gatewayVars, catalogVars, serverVars>>

\* return fullResponse, after the loop
DecodeEnd ==
    /\ decoded.type = "pending"
    /\ idx > Len(lines)
    /\ decoded' = StringResult(fullResponse)
    /\ UNCHANGED <<lines, idx, fullResponse, sessionVars,
                   gatewayVars, catalogVars, serverVars>>

NextDecode == DecodeLine \/ DecodeEnd

SpecDecode == InitDecode /\ [][NextDecode]_vars

(***************************************************************************)
(* MCPClient alone: its four public methods called by any caller, one      *)
(* connect or disconnect at a time, listTools and executeTool at any time.  *)
(* gateway records the call that is suspended (pending) and, of the call    *)
(* that completed last: its name (op), what it returned or the message of   *)
(* what it threw (returned, raised), whether the handshake had succeeded    *)
(* and the client was held when it was made (connected), and whether it     *)
(* called this.client.listTools / this.client.callTool (sdkCalled). Of the  *)
(* last executeTool it also records the name and the arguments it was      *)
(* given (toolName, args), the requests it passed to this.client.callTool   *)
(* (sent), what the tool-provider did with the last of them (provided) and  *)
(* the payload it returned (payload).                                       *)
(***************************************************************************)
\* the handshake has succeeded on the client that is held
Connected == client /\ link = "up"

\* no client and no transport are held
Disconnected == ~client /\ ~transport

\* the record of a call that has completed
Completed(op, returned, raised, sdkCalled) ==
    [gateway EXCEPT !.op = op, !.returned = returned, !.raised = raised,
                    !.connected = Connected, !.sdkCalled = sdkCalled]

\* what this.client.listTools() can come to
ListToolsOutcomes ==
    { [threw |-> FALSE, text |-> "tools", isError |-> FALSE, message |-> ""],
      [threw |-> TRUE, text |-> "", isError |-> FALSE,
       message |-> "Not connected"] }

InitGateway ==
    /\ pc = "checkConnection"
    /\ messages = <<>>
    /\ modelName = DEFAULT_MODEL
    /\ models = <<>>
    /\ toolsMCP = NullTools
    /\ client = FALSE                  \* private client: Client | null = null
    /\ transport = FALSE
    /\ link = "none"
    /\ frame = NoFrame
    /\ depth = 0
    /\ request = NoRequest
    /\ chatCall = NoChatCall
    /\ response = Pending
    /\ dispatch = NothingCalled
    /\ lines = <<>>
    /\ idx = 0
    /\ fullResponse = ""
    /\ decoded = Pending
    /\ gateway = NoGatewayCall
    /\ inflight = <<>>
    /\ turnCalls = <<>>
    /\ catalog = NoCatalogCall
    /\ server = NoServerCall

\* what SpecGateway leaves alone
gatewayIdle == <<pc, messages, modelName, models, toolsMCP, frame, depth, request,
                 chatCall, response, dispatch, logVars, decodeVars,
                 catalogVars, serverVars>>

\* connect up to await this.client.connect(this.transport)
GwConnectStart ==
    /\ gateway.pending = "none"
    /\ gateway.calls < MaxCalls
    /\ transport' = TRUE
    /\ client' = TRUE
    /\ link' = "none"
    /\ gateway' = [gateway EXCEPT !.pending = "connect", !.calls = @ + 1]
    /\ UNCHANGED gatewayIdle

\* connect: the handshake succeeded (return true), or spawning or the
\* handshake failed (catch: await this.disconnect(), awaiting close)
GwConnectReturn ==
    /\ gateway.pending = "connect"
    /\ \E ok \in BOOLEAN :
          IF ok
          THEN /\ link' = "up"
               /\ gateway' = [gateway EXCEPT !.pending = "none",
                                             !.op = "connect",
                                             !.returned = "true",
                                             !.raised = FALSE,
                                             !.connected = TRUE,
                                             !.sdkCalled = FALSE]
          ELSE /\ link' = link
               /\ gateway' = [gateway EXCEPT !.pending = "connect close"]
    /\ UNCHANGED <<client, transport, gatewayIdle>>

\* connect's disconnect ends; connect returns false
GwConnectCloseReturn ==
    /\ gateway.pending = "connect close"
    /\ \E closeThrew \in BOOLEAN : DisconnectEnd(closeThrew)
    /\ gateway' = [Completed("connect", "false", FALSE, FALSE)
                   EXCEPT !.pending = "none"]
    /\ UNCHANGED gatewayIdle

\* disconnect up to await this.client.close(), or to its end when no
\* client is held
GwDisconnectStart ==
    /\ gateway.pending = "none"
    /\ gateway.calls < MaxCalls
    /\ IF client
       THEN /\ gateway' = [gateway EXCEPT !.pending = "close",
                                          !.calls = @ + 1]
            /\ UNCHANGED <<client, transport, link>>
       ELSE /\ transport' = FALSE
            /\ gateway' = [Completed("disconnect", "undefined", FALSE, FALSE)
                           EXCEPT !.calls = @ + 1]
            /\ UNCHANGED <<client, link>>
    /\ UNCHANGED gatewayIdle

\* disconnect: this.client.close() returned or threw
GwDisconnectReturn ==
    /\ gateway.pending = "close"
    /\ \E closeThrew \in BOOLEAN : DisconnectEnd(closeThrew)
    /\ gateway' = [Completed("disconnect", "undefined", FALSE, FALSE)
                   EXCEPT !.pending = "none"]
    /\ UNCHANGED gatewayIdle

\* listTools after the guard on this.client: the call on the client, its
\* result returned or its error thrown again
Forwarded(op, outcome) ==
    [Completed(op, IF outcome.threw THEN outcome.message ELSE outcome.text,
               outcome.threw, TRUE)
     EXCEPT !.calls = @ + 1]

\* listTools: throw new Error("Cliente no conectado...")
Refused(op) ==
    [Completed(op, NoClientMessage, TRUE, FALSE) EXCEPT !.calls = @ + 1]

\* listTools, whole
GwListTools ==
    /\ gateway.calls < MaxCalls
    /\ IF ~client
       THEN gateway' = Refused("listTools")
       ELSE \E outcome \in ListToolsOutcomes :
               gateway' = Forwarded("listTools", outcome)
    /\ UNCHANGED <<client, transport, link, gatewayIdle>>

\* Variant: a failed callTool is tried once more before it is thrown.
ExecuteToolRetries(hasClient, toolName, args, outcome) ==
    IF ~hasClient
    THEN [sent |-> <<>>, raised |-> TRUE, message |-> NoClientMessage,
          result |-> NoPayload]
    ELSE IF outcome.threw
    THEN [sent |-> << [name |-> toolName, arguments |-> args],
                      [name |-> toolName, arguments |-> args] >>,
          raised |-> TRUE, message |-> outcome.message, result |-> NoPayload]
    ELSE [sent |-> << [name |-> toolName, arguments |-> args] >>,
          raised |-> FALSE, message |-> "", result |-> Payload(outcome)]

\* MCPClient.executeTool: the requests passed to this.client.callTool, and
\* the result returned or the message of the error thrown
ExecuteTool(hasClient, toolName, args, outcome) ==
    IF ~hasClient
    THEN [sent |-> <<>>, raised |-> TRUE, message |-> NoClientMessage,
          result |-> NoPayload]
    ELSE IF outcome.threw
    THEN \* catch: log, throw e
         [sent |-> << [name |-> toolName, arguments |-> args] >>,
          raised |-> TRUE, message |-> outcome.message, result |-> NoPayload]
    ELSE [sent |-> << [name |-> toolName, arguments |-> args] >>,
          raised |-> FALSE, message |-> "", result |-> Payload(outcome)]

\* names and arguments executeTool is called with
GatewayToolNames == { "lcm", "mcp_x" }
GatewayArguments == { LcmArguments, EmptyMapping, JSnull }

\* executeTool, whole
GwExecuteTool ==
    /\ gateway.calls < MaxCalls
    /\ \E toolName \in GatewayToolNames, args \in GatewayArguments,
          outcome \in CallToolOutcomes :
          LET call == ExecuteTool(client, toolName, args, outcome)
          IN  gateway' =
                [Completed("executeTool",
                           IF call.raised THEN call.message ELSE outcome.text,
                           call.raised, call.sent # <<>>)
                 EXCEPT !.calls = @ + 1,
                        !.toolName = toolName,
                        !.args = args,
                        !.sent = call.sent,
                        !.provided = IF call.sent # <<>> THEN outcome
                                     ELSE NoOutcome,
                        !.payload = call.result]
    /\ UNCHANGED <<client, transport, link, gatewayIdle>>

NextGateway ==
    \/ GwConnectStart
    \/ GwConnectReturn
    \/ GwConnectCloseReturn
    \/ GwDisconnectStart
    \/ GwDisconnectReturn
    \/ GwListTools
    \/ GwExecuteTool

SpecGateway == InitGateway /\ [][NextGateway]_vars

(***************************************************************************)
(* ToolManager alone: getAllTools called again and again on one            *)
(* ToolManager with any argument. catalog holds the manager's list after   *)
(* the call, the argument as given and as the call left it, the list       *)
(* returned, and the argument and the result of the call before.           *)
(***************************************************************************)
\* the arguments getAllTools is called with
CatalogInputs ==
    { NullTools, NoToolsList, ListedTools(<<>>),
      ListedTools(<<McpTool("a", "", "")>>),
      ListedTools(<<McpTool("b", "B", "{}"), McpTool("a", "", "")>>) }
    \cup { ListedTools(tools) : tools \in ProviderCatalogs }

InitCatalog ==
    /\ pc = "checkConnection"
    /\ messages = <<>>
    /\ modelName = DEFAULT_MODEL
    /\ models = <<>>
    /\ toolsMCP = NullTools
    /\ client = FALSE
    /\ transport = FALSE
    /\ link = "none"
    /\ frame = NoFrame
    /\ depth = 0
    /\ request = NoRequest
    /\ chatCall = NoChatCall
    /\ response = Pending
    /\ dispatch = NothingCalled
    /\ lines = <<>>
    /\ idx = 0
    /\ fullResponse = ""
    /\ decoded = Pending
    /\ gateway = NoGatewayCall
    /\ inflight = <<>>
    /\ turnCalls = <<>>
    /\ catalog = NoCatalogCall        \* new ToolManager()
    /\ server = NoServerCall

\* one call of getAllTools
GetAllTools ==
    /\ catalog.calls < MaxCatalogCalls
    /\ \E mcpTools \in CatalogInputs :
          LET call == GetAllToolsCall(catalog.builtInTools, mcpTools)
          IN  catalog' = [builtInTools |-> call.builtInTools,
                          given |-> mcpTools,
                          mcpTools |-> call.mcpTools,
                          tools |-> call.tools,
                          before |-> [given |-> catalog.given,
                                      tools |-> catalog.tools],
                          calls |-> catalog.calls + 1]
    /\ UNCHANGED <<sessionVars, decodeVars, gatewayVars, serverVars>>

NextCatalog == GetAllTools

SpecCatalog == InitCatalog /\ [][NextCatalog]_vars

(***************************************************************************)
(* The servers. Each tool handler is run on its own, from the arguments    *)
(* the SDK hands it to the result it returns. The client's variables stay  *)
(* as they are before main starts.                                         *)
(***************************************************************************)
ClientIdle ==
    /\ pc = "checkConnection"
    /\ messages = <<>>
    /\ modelName = DEFAULT_MODEL
    /\ models = <<>>
    /\ toolsMCP = NullTools
    /\ client = FALSE
    /\ transport = FALSE
    /\ link = "none"
    /\ frame = NoFrame
    /\ depth = 0
    /\ request = NoRequest
    /\ chatCall = NoChatCall
    /\ response = Pending
    /\ dispatch = NothingCalled
    /\ lines = <<>>
    /\ idx = 0
    /\ fullResponse = ""
    /\ decoded = Pending
    /\ gateway = NoGatewayCall
    /\ inflight = <<>>
    /\ turnCalls = <<>>
    /\ catalog = NoCatalogCall

clientVars == <<sessionVars, decodeVars, gatewayVars, catalogVars>>

(***************************************************************************)
(* JavaScript numbers, as far as the lcm tool meets them: the integers     *)
(* (exact in a double far beyond the bound of the inputs), NaN and         *)
(* Infinity. -0 is not told from 0: `-0 !== 0` is false, Math.abs(-0) is   *)
(* 0 and `${-0}` is "0". The sign of an Infinity is dropped.               *)
(***************************************************************************)
Num(n) == [kind |-> "int", n |-> n]
NaN == [kind |-> "NaN", n |-> 0]
Infinity == [kind |-> "Infinity", n |-> 0]

Magnitude(n) == IF n < 0 THEN -n ELSE n

\* an argument of the tool: the number halves / 2
Half(halves) == [halves |-> halves]

\* Math.floor
MathFloor(x) == Num(x.halves \div 2)

\* Math.abs
MathAbs(x) == IF x.kind = "int" THEN Num(Magnitude(x.n)) ELSE x

\* a * b
Times(x, y) ==
    IF x.kind = "NaN" \/ y.kind = "NaN" THEN NaN
    ELSE IF x.kind = "int" /\ y.kind = "int" THEN Num(x.n * y.n)
    ELSE IF (x.kind = "int" /\ x.n = 0) \/ (y.kind = "int" /\ y.n = 0) THEN NaN
    ELSE Infinity

\* a % b: the sign of the result is the sign of the dividend
Remainder(x, y) ==
    IF x.kind # "int" \/ y.kind = "NaN" THEN NaN
    ELSE IF y.kind = "Infinity" THEN x
    ELSE IF y.n = 0 THEN NaN
    ELSE LET m == Magnitude(x.n) % Magnitude(y.n)
         IN  Num(IF x.n < 0 THEN -m ELSE m)

\* a / b, for the quotients that are integers, NaN or Infinity
Quotient(x, y) ==
    IF x.kind = "NaN" \/ y.kind = "NaN" THEN NaN
    ELSE IF x.kind = "Infinity"
         THEN IF y.kind = "Infinity" THEN NaN ELSE Infinity
    ELSE IF y.kind = "Infinity" THEN Num(0)
    ELSE IF y.n = 0 THEN IF x.n = 0 THEN NaN ELSE Infinity
    ELSE LET q == Magnitude(x.n) \div Magnitude(y.n)
         IN  Num(IF (x.n < 0) # (y.n < 0) THEN -q ELSE q)

\* b !== 0
IsNotZero(x) == ~(x.kind = "int" /\ x.n = 0)

\* `${result}`
NumberToString(x) == IF x.kind = "int" THEN ToString(x.n) ELSE x.kind

(***************************************************************************)
(* servers/basic, tool "lcm": the handler's for loop, with the while loop  *)
(* of gcd step by step, since nothing bounds the number of its turns.      *)
(***************************************************************************)
MaxNumbers == 3

\* the numbers the tool is called with
LcmNumbers == { Half(h) : h \in {-12, -8, 0, 5, 8, 9, 12} }

\* z.array(z.number()).min(2)
LcmInputs ==
    UNION { [1..n -> LcmNumbers] : n \in 2..MaxNumbers }

\* lcm(a, b), once gcd(a, b) has returned
lcmOf(a, b, gcdOfBoth) == Quotient(MathAbs(Times(a, b)), gcdOfBoth)

LcmResultText(result) ==
    "The least common multiple is: " \o NumberToString(result)

InitLcm ==
    /\ ClientIdle
    /\ \E numbers \in LcmInputs :
          server = [tool |-> "lcm", numbers |-> numbers, pc |-> "for",
                    result |-> MathFloor(numbers[1]), i |-> 1,
                    num |-> Num(0), a |-> Num(0), b |-> Num(0),
                    text |-> "", isError |-> FALSE]

\* for (...) { const num = Math.floor(numbers[i]); lcm(result, num) enters gcd
LcmForBody ==
    /\ server.tool = "lcm"
    /\ server.pc = "for"
    /\ server.i < Len(server.numbers)
    /\ LET num == MathFloor(server.numbers[server.i + 1])
       IN  server' = [server EXCEPT !.pc = "gcd", !.num = num,
                                    !.a = server.result, !.b = num]
    /\ UNCHANGED clientVars

\* while (b !== 0) { const temp = b; b = a % b; a = temp; }
GcdTurn ==
    /\ server.tool = "lcm"
    /\ server.pc = "gcd"
    /\ IsNotZero(server.b)
    /\ server' = [server EXCEPT !.b = Remainder(server.a, server.b),
                                !.a = server.b]
    /\ UNCHANGED clientVars

\* return a; result = Math.abs(a * b) / gcd(a, b); i++
GcdReturn ==
    /\ server.tool = "lcm"
    /\ server.pc = "gcd"
    /\ ~IsNotZero(server.b)
    /\ server' = [server EXCEPT !.pc = "for",
                                !.result = lcmOf(server.result, server.num,
                                                 server.a),
                                !.i = server.i + 1]
    /\ UNCHANGED clientVars

\* return { content: [{ type: "text", text: ... }] }
LcmReturn ==
    /\ server.tool = "lcm"
    /\ server.pc = "for"
    /\ server.i = Len(server.numbers)
    /\ server' = [server EXCEPT !.pc = "returned",
                                !.text = LcmResultText(server.result)]
    /\ UNCHANGED clientVars

NextLcm == LcmForBody \/ GcdTurn \/ GcdReturn \/ LcmReturn

SpecLcm == InitLcm /\ [][NextLcm]_vars

(***************************************************************************)
(* servers/edteam-go, tool "Courses-List": the handler from the arguments  *)
(* of the request to the call of GetCourses, and GetCourses' return.       *)
(***************************************************************************)
\* request.Params.Arguments[key]: no such key, a JSON string, or a JSON
\* number (a float64), here the number halves / 2
NoArgument == [kind |-> "missing", halves |-> 0]
TextArgument == [kind |-> "string", halves |-> 0]
NumberArgument(halves) == [kind |-> "number", halves |-> halves]

CoursesNumbers == { -2, 0, 1, 2, 5, 20, 21, 22 }

CoursesArgumentValues ==
    { NoArgument, TextArgument }
    \cup { NumberArgument(h) : h \in CoursesNumbers }

\* value, ok := x.(float64)
AssertFloat64(argument) ==
    [ok |-> argument.kind = "number",
     halves |-> IF argument.kind = "number" THEN argument.halves ELSE 0]

\* a uint: n, or 2^64 - n when wrapped
Uint(n) == [wrapped |-> FALSE, n |-> n]
WrappedUint(n) == [wrapped |-> TRUE, n |-> n]

\* uint(x) of a float64: the fraction is discarded; for a value below 0 the
\* result depends on the implementation (0 on arm64, 2^64 - n on amd64)
UintOfFloat64(halves) ==
    IF halves >= 0
    THEN { Uint(halves \div 2) }
    ELSE IF Magnitude(halves) \div 2 = 0
    THEN { Uint(0) }
    ELSE { Uint(0), WrappedUint(Magnitude(halves) \div 2) }

\* page after `if !ok { page = 1 }`, in halves
CoursesPage(arguments) ==
    LET asserted == AssertFloat64(arguments.page)
    IN  IF ~asserted.ok THEN 2 ELSE asserted.halves

\* limit after `if !ok || limit <= 0 || limit > 10 { limit = 10 }`, in
\* halves
CoursesLimit(arguments) ==
    LET asserted == AssertFloat64(arguments.limit)
    IN  IF ~asserted.ok \/ asserted.halves <= 0 \/ asserted.halves > 20
        THEN 20 ELSE asserted.halves

\* what GetCourses can come to
GetCoursesOutcomes ==
    { "request failed", "status not 200", "unmarshal failed", "ok" }

InitCourses ==
    /\ ClientIdle
    /\ \E page \in CoursesArgumentValues, limit \in CoursesArgumentValues :
          server = [tool |-> "Courses-List",
                    arguments |-> [page |-> page, limit |-> limit],
                    pc |-> "called", page |-> Uint(0), limit |-> Uint(0),
                    result |-> "", err |-> FALSE]

\* the handler up to GetCourses(ctx, uint(page), uint(limit))
CoursesListCall ==
    /\ server.tool = "Courses-List"
    /\ server.pc = "called"
    /\ \E page \in UintOfFloat64(CoursesPage(server.arguments)),
          limit \in UintOfFloat64(CoursesLimit(server.arguments)) :
          server' = [server EXCEPT !.pc = "GetCourses", !.page = page,
                                   !.limit = limit]
    /\ UNCHANGED clientVars

\* GetCourses returned: its error is the handler's error, else the courses
\* are the text of the result
GetCoursesReturn ==
    /\ server.tool = "Courses-List"
    /\ server.pc = "GetCourses"
    /\ \E outcome \in GetCoursesOutcomes :
          server' = [server EXCEPT !.pc = "returned",
                                   !.err = (outcome # "ok"),
                                   !.result = IF outcome = "ok"
                                              THEN "courses" ELSE outcome]
    /\ UNCHANGED clientVars

NextCourses == CoursesListCall \/ GetCoursesReturn

SpecCourses == InitCourses /\ [][NextCourses]_vars

(***************************************************************************)
(* servers/basic, tool "get_random_quotes": the handler from its count to  *)
(* the request of fetchRandomQuotes, and from the answer to its result.    *)
(***************************************************************************)
GOT_API_BASE == "https://api.gameofthronesquotes.xyz/v1"

\* the counts the tool is called with, in halves; NoCount: no count given
QuotesCounts == -4..24
NoCount == [given |-> FALSE, halves |-> 0]
Count(halves) == [given |-> TRUE, halves |-> halves]

\* z.number().optional().default(5), in halves
CountOrDefault(count) == IF count.given THEN count.halves ELSE 10

\* `${count}` of a number of halves that is not negative
CountText(halves) ==
    ToString(halves \div 2) \o (IF halves % 2 = 1 THEN ".5" ELSE "")

Quote(sentence, name, house) ==
    [sentence |-> sentence, character |-> TRUE, name |-> name,
     house |-> house]

\* an element of the answer without character
NoCharacterQuote ==
    [sentence |-> "s", character |-> FALSE, name |-> "", house |-> ""]

\* formatQuote
formatQuote(quote) ==
    "\nQuote: \"" \o quote.sentence \o "\"\nCharacter: " \o quote.name
        \o "\nHouse: " \o quote.house

\* formattedQuotes.join("\n---\n")
RECURSIVE JoinQuotes(_, _)
JoinQuotes(quotes, i) ==
    IF i > Len(quotes)
    THEN ""
    ELSE formatQuote(quotes[i])
            \o (IF i < Len(quotes) THEN "\n---\n" ELSE "")
            \o JoinQuotes(quotes, i + 1)

\* what the request of fetchRandomQuotes can come to
FetchOutcomes ==
    { [kind |-> "fetch throws", quotes |-> <<>>],
      [kind |-> "not ok", quotes |-> <<>>],
      [kind |-> "json throws", quotes |-> <<>>],
      [kind |-> "ok", quotes |-> <<>>],
      [kind |-> "ok", quotes |-> <<Quote("a", "Jon", "Stark")>>],
      [kind |-> "ok", quotes |-> <<Quote("a", "Jon", "Stark"),
                                   Quote("b", "Tyrion", "Lannister")>>],
      [kind |-> "ok", quotes |-> <<NoCharacterQuote>>] }

TextResult(text) == [text |-> text, isError |-> FALSE]
ErrorResult(text) == [text |-> text, isError |-> TRUE]
NoResult == [text |-> "", isError |-> FALSE]

\* the handler's tests of count; fetchRandomQuotes repeats them and then
\* passes
ValidateCount(halves) ==
    IF halves <= 0
    THEN [valid |-> FALSE, result |-> ErrorResult("Count must be a positive number.")]
    ELSE IF halves > 20
    THEN [valid |-> FALSE, result |-> ErrorResult("Maximum number of quotes is 10.")]
    ELSE [valid |-> TRUE, result |-> NoResult]

\* the handler from the return of fetchRandomQuotes' request on
QuotesResult(outcome) ==
    IF outcome.kind = "fetch throws"
    THEN ErrorResult("Error: fetch failed")
    ELSE IF outcome.kind = "not ok"
    THEN ErrorResult("Error: Error fetching quotes: Not Found")
    ELSE IF outcome.kind = "json throws"
    THEN ErrorResult("Error: invalid json response body")
    ELSE IF \E i \in 1..Len(outcome.quotes) : ~outcome.quotes[i].character
    THEN ErrorResult("Error: Cannot read properties of undefined (reading 'name')")
    ELSE TextResult(JoinQuotes(outcome.quotes, 1))

InitQuotes ==
    /\ ClientIdle
    /\ \E count \in {NoCount} \cup {Count(h) : h \in QuotesCounts} :
          server = [tool |-> "get_random_quotes", count |-> count,
                    pc |-> "called", requests |-> <<>>,
                    outcome |-> "", result |-> NoResult]

\* the handler up to its return of an error result or to the await of
\* fetch(url) in fetchRandomQuotes
GetRandomQuotes ==
    /\ server.tool = "get_random_quotes"
    /\ server.pc = "called"
    /\ LET halves == CountOrDefault(server.count)
           validated == ValidateCount(halves)
       IN  IF validated.valid
           THEN server' = [server EXCEPT
                              !.pc = "fetch",
                              !.requests = Append(@,
                                  [count |-> halves,
                                   url |-> GOT_API_BASE \o "/random/"
                                              \o CountText(halves)])]
           ELSE server' = [server EXCEPT !.pc = "returned",
                                         !.result = validated.result]
    /\ UNCHANGED clientVars

\* fetch returned or threw; the handler returns the quotes or, from its
\* catch, an error result
FetchReturn ==
    /\ server.tool = "get_random_quotes"
    /\ server.pc = "fetch"
    /\ \E outcome \in FetchOutcomes :
          server' = [server EXCEPT !.pc = "returned",
                                   !.outcome = outcome.kind,
                                   !.result = QuotesResult(outcome)]
    /\ UNCHANGED clientVars

NextQuotes == GetRandomQuotes \/ FetchReturn

SpecQuotes == InitQuotes /\ [][NextQuotes]_vars

(***************************************************************************)
(* Properties of ToolManager.                                              *)
(***************************************************************************)
\* C23: after any number of calls the ToolManager's own list and the
\* argument are as they were; the list returned is the own list followed
\* by one descriptor named "mcp_" + name per descriptor of the argument, in
\* order, and the own list alone when the argument is null or has no tools
\* list; a call with the argument of the call before returns an equal list.
CatalogIsPure ==
    catalog.calls > 0 =>
        LET given == catalog.given
            local == Len(builtInTools)
        IN  /\ catalog.builtInTools = builtInTools
            /\ catalog.mcpTools = given
            /\ SubSeq(catalog.tools, 1, local) = builtInTools
            /\ (given.isNull \/ "tools" \notin DOMAIN given)
                  => catalog.tools = builtInTools
            /\ (~given.isNull /\ "tools" \in DOMAIN given)
                  => /\ Len(catalog.tools) = local + Len(given.tools)
                     /\ \A i \in 1..Len(given.tools) :
                           /\ catalog.tools[local + i].type = "function"
                           /\ catalog.tools[local + i].function.name =
                                 "mcp_" \o given.tools[i].name
            /\ (catalog.calls > 1 /\ catalog.before.given = given)
                  => catalog.before.tools = catalog.tools

CatalogIsPureWitness ==
    /\ catalog.calls = 3
    /\ catalog.given.isNull = FALSE
    /\ catalog.given = catalog.before.given
    /\ Len(catalog.tools) = 2
    /\ catalog.tools[1].function.name = "mcp_b"
    /\ catalog.tools[2].function.name = "mcp_a"

(***************************************************************************)
(* Properties of MCPClient.                                                *)
(***************************************************************************)
\* C28: an executeTool that passed its guard has handed this.client.callTool
\* one request, with the name and the arguments it was given; it returned
\* the payload the tool-provider answered with, or threw the provider's
\* error after that one request.
ExecuteToolVerbatim ==
    (gateway.op = "executeTool" /\ gateway.sdkCalled) =>
        /\ gateway.sent = << [name |-> gateway.toolName,
                              arguments |-> gateway.args] >>
        /\ gateway.provided.threw =>
              /\ gateway.raised
              /\ gateway.returned = gateway.provided.message
              /\ gateway.payload = NoPayload
        /\ ~gateway.provided.threw =>
              /\ ~gateway.raised
              /\ gateway.payload = [text |-> gateway.provided.text,
                                    isError |-> gateway.provided.isError]

ExecuteToolVerbatimWitness ==
    /\ gateway.op = "executeTool"
    /\ gateway.connected
    /\ gateway.sdkCalled
    /\ gateway.toolName = "lcm"
    /\ gateway.args = LcmArguments
    /\ gateway.payload = [text |-> "12", isError |-> FALSE]
    /\ Len(gateway.sent) = 1

\* C11: whenever disconnect() has completed, from any state of the gateway
\* and whether or not this.client.close() failed, it has not raised and the
\* gateway holds neither a client nor a transport.
DisconnectLeavesDisconnected ==
    (gateway.pending = "none" /\ gateway.op = "disconnect")
        => (~gateway.raised /\ Disconnected)

\* C12: whenever connect() has completed it has not raised, and either it
\* returned true and the gateway is Connected, or it returned false and the
\* gateway holds neither a client nor a transport.
ConnectAllOrNothing ==
    (gateway.pending = "none" /\ gateway.op = "connect")
        => /\ ~gateway.raised
           /\ \/ gateway.returned = "true" /\ Connected
              \/ gateway.returned = "false" /\ Disconnected

\* C13: a listTools() or executeTool() call is passed to the client only
\* when it is made in state Connected; made in any other state it throws
\* the "not connected" error and calls nothing.
CallsOnlyWhenConnected ==
    (gateway.op \in {"listTools", "executeTool"})
        => /\ gateway.sdkCalled <=> gateway.connected
           /\ ~gateway.connected
                 => (gateway.raised /\ gateway.returned = NoClientMessage)

(***************************************************************************)
(* Properties of the decoding.                                             *)
(***************************************************************************)
\* the line's message.tool_calls is a non-empty list
CarriesToolCalls(line) ==
    /\ line.json = "object"
    /\ line.message
    /\ line.has_tool_calls
    /\ line.tool_calls # <<>>

\* index of the first line carrying tool calls, 0 when there is none
FirstToolCallsLine(ls) ==
    IF \E i \in 1..Len(ls) : CarriesToolCalls(ls[i])
    THEN CHOOSE i \in 1..Len(ls) :
            /\ CarriesToolCalls(ls[i])
            /\ \A j \in 1..(i - 1) : ~CarriesToolCalls(ls[j])
    ELSE 0

\* the message.content fragment of a line, "" when it has none
ContentFragment(line) ==
    IF line.json = "object" /\ line.message THEN line.content ELSE ""

RECURSIVE Concatenation(_, _)
\* the fragments of the first n lines, concatenated in line order
Concatenation(ls, n) ==
    IF n = 0 THEN "" ELSE Concatenation(ls, n - 1) \o ContentFragment(ls[n])

\* the line fails to parse as a structured record
Malformed(line) == line.json # "object"

WithoutMalformed(ls) == SelectSeq(ls, LAMBDA line : ~Malformed(line))

\* C4: the first line whose message.tool_calls is a non-empty list ends the
\* decoding: the loop never goes past it, and the value returned is the
\* function_call of that line's first invocation, with no text in it.
DecodeShortCircuit ==
    LET k == FirstToolCallsLine(lines)
    IN  k > 0 =>
           /\ idx <= k
           /\ decoded.type # "pending" =>
                 /\ decoded = FunctionCallResult(lines[k].tool_calls[1])
                 /\ DOMAIN decoded = {"type", "function_call"}
           /\ _processResponse(lines) = FunctionCallResult(lines[k].tool_calls[1])

DecodeShortCircuitWitness ==
    /\ lines = <<ContentLine("ignored"), ToolCallsLine(<<CallF>>, ""),
                 ContentLine("B")>>
    /\ decoded = FunctionCallResult(CallF)
    /\ fullResponse = "ignored"
    /\ idx = 2

\* C5: when no line carries a non-empty tool_calls list, the value returned
\* is the string made of every line's content fragment, in line order; a
\* line with an empty tool_calls list contributes its content too.
DecodeAccumulates ==
    (\A i \in 1..Len(lines) : ~CarriesToolCalls(lines[i])) =>
        /\ decoded.type = "pending" =>
              fullResponse = Concatenation(lines, idx - 1)
        /\ decoded.type # "pending" =>
              decoded = StringResult(Concatenation(lines, Len(lines)))
        /\ _processResponse(lines) = StringResult(Concatenation(lines, Len(lines)))

DecodeAccumulatesWitness ==
    /\ lines = <<ContentLine("A"), ToolCallsLine(<<>>, "B")>>
    /\ decoded = StringResult("AB")

\* C8: a line that fails to parse is skipped: the value returned for a
\* body is the value returned for the body without its malformed lines.
DecodeSkipsMalformed ==
    decoded.type # "pending" =>
        decoded = _processResponse(WithoutMalformed(lines))

DecodeSkipsMalformedWitness ==
    /\ lines = <<ContentLine("A"), GarbageLine, ContentLine("B")>>
    /\ decoded = StringResult("AB")

(***************************************************************************)
(* Properties of the session.                                              *)
(***************************************************************************)
\* the id the orchestrator synthesizes at history length n
IdAtLength(n) == "call_" \o ToString(n)

CallIndexes == { i \in 1..Len(messages) : HasToolCalls(messages[i]) }
ToolIndexes == { i \in 1..Len(messages) : messages[i].role = TOOL }

\* C1: every tool message comes right after an assistant message holding
\* exactly one invocation with the tool message's id and name, and every
\* assistant message holding tool_calls is followed by exactly one such
\* tool message.
ToolPairing ==
    /\ \A i \in ToolIndexes :
          /\ i > 1
          /\ messages[i - 1].role = ASSISTANT
          /\ HasToolCalls(messages[i - 1])
          /\ Len(messages[i - 1].tool_calls) = 1
          /\ messages[i - 1].tool_calls[1].id = messages[i].tool_call_id
          /\ messages[i - 1].tool_calls[1].function.name = messages[i].name
    /\ \A i \in CallIndexes :
          /\ messages[i].role = ASSISTANT
          /\ i < Len(messages)
          /\ messages[i + 1].role = TOOL
          /\ i + 2 <= Len(messages) => messages[i + 2].role # TOOL

ToolPairingWitness ==
    /\ pc = "ask"
    /\ Cardinality(ToolIndexes) = 2
    /\ \E i \in ToolIndexes : messages[i].name = "ghost"
    /\ \E i \in ToolIndexes : messages[i].name = "mcp_lcm"

\* C2: the id synthesized is "call_" + the history length at that moment,
\* and the ids of the invocations in the history are pairwise distinct,
\* their numbers increasing in history order.
IdsIncrease ==
    /\ frame.active /\ pc \in {"callTool", "executed"} =>
          frame.functionCallId = IdAtLength(Len(messages))
    /\ \A i \in CallIndexes : \A j \in CallIndexes :
          i < j =>
             /\ messages[i].tool_calls[1].id # messages[j].tool_calls[1].id
             /\ \E a \in 0..Len(messages) : \E b \in 0..Len(messages) :
                   /\ a < b
                   /\ messages[i].tool_calls[1].id = IdAtLength(a)
                   /\ messages[j].tool_calls[1].id = IdAtLength(b)

IdsIncreaseWitness ==
    /\ Cardinality(CallIndexes) = 2
    /\ \E i \in CallIndexes : messages[i].tool_calls[1].id = "call_2"
    /\ \E i \in CallIndexes : messages[i].tool_calls[1].id = "call_4"
    /\ messages[Len(messages)] = TextMessage(ASSISTANT, "")

\* C3: while the chat request of processFunctionCall is in flight, exactly
\* two messages have been appended since the id was synthesized: the
\* assistant message with the one invocation (id, name, arguments), then
\* the tool message with the result, the same id and name; and the request
\* carries the history with both.
ResultsThenChat ==
    pc = "chat" /\ depth > 0 =>
        LET n == Len(messages)
        IN  /\ n >= 2
            /\ frame.functionCallId = IdAtLength(n - 2)
            /\ messages[n - 1].role = ASSISTANT
            /\ messages[n - 1].content = null
            /\ Len(messages[n - 1].tool_calls) = 1
            /\ messages[n - 1].tool_calls[1].id = frame.functionCallId
            /\ messages[n - 1].tool_calls[1].function.name = frame.functionName
            /\ messages[n - 1].tool_calls[1].function.arguments.type =
                  frame.functionCall.function.arguments.type
            /\ messages[n] = ToolMessage(frame.functionCallId, frame.functionName,
                                         frame.functionResult)
            /\ request.messages = messages

ResultsThenChatWitness ==
    /\ pc = "chat"
    /\ depth = 2
    /\ Len(messages) = 6
    /\ Len(request.messages) = 6

\* C6: the history never holds an assistant text message with empty
\* content.
NoEmptyAnswer ==
    \A i \in 1..Len(messages) :
        messages[i].role = ASSISTANT /\ ~HasToolCalls(messages[i]) =>
            messages[i].content # ""

\* C7: OllamaAPIClient.chat never raises and issues one request; when the
\* status is not 200, or fetch or response.text() fails, it returns "".
ChatNeverRaises ==
    /\ ~chatCall.raised
    /\ chatCall.fetches <= 1
    /\ chatCall.kind \notin {"", "ok"} =>
          /\ chatCall.value = StringResult("")
          /\ chatCall.fetches = 1
          /\ pc = "response" => response = StringResult("")

ChatNeverRaisesWitness ==
    /\ pc = "response"
    /\ chatCall.kind = "status not 200, text throws"
    /\ response = StringResult("")
    /\ depth = 1

\* the names of the cached remote descriptors
RemoteNames == { toolsMCP.tools[i].name : i \in 1..Len(toolsMCP.tools) }

Advertised == { request.tools[i].function.name : i \in 1..Len(request.tools) }

\* C9, as claimed: the catalog advertises "remote_" + n, and the dispatch
\* on "remote_" + n calls the gateway with n.
RemotePrefixRoundTrip ==
    \A n \in RemoteNames :
        /\ request # NoRequest => ("remote_" \o n) \in Advertised
        /\ dispatch.functionName = "remote_" \o n =>
              dispatch.executeTool /\ dispatch.toolName = n

\* C9, amended: the catalog advertises "mcp_" + n for the remote descriptor
\* n, at n's place, and the dispatch on "mcp_" + n calls the gateway with
\* exactly n.
McpPrefixRoundTrip ==
    /\ \A i \in 1..Len(toolsMCP.tools) :
          request # NoRequest =>
             /\ Len(request.tools) = Len(toolsMCP.tools)
             /\ request.tools[i].function.name = "mcp_" \o toolsMCP.tools[i].name
    /\ \A n \in RemoteNames :
          dispatch.functionName = "mcp_" \o n =>
             /\ dispatch.executeTool
             /\ dispatch.toolName = n
             /\ pc = "callTool"  => dispatch.callTool

McpPrefixRoundTripWitness ==
    /\ pc = "callTool"
    /\ "lcm" \in RemoteNames
    /\ "mcp_lcm" \in Advertised
    /\ dispatch.functionName = "mcp_lcm"
    /\ dispatch.callTool
    /\ dispatch.toolName = "lcm"

\* C10, as claimed: the gateway is called if and only if the name starts
\* with "mcp_", with the name less that prefix.
GatewayIffMcpPrefix ==
    dispatch.functionName # "" =>
        /\ dispatch.executeTool <=> startsWith(dispatch.functionName, "mcp_")
        /\ dispatch.executeTool =>
              dispatch.functionName = "mcp_" \o dispatch.toolName

\* C10, amended: executeFunction calls agent.executeMcpTool if and only if
\* the name starts with "mcp_", with the name less exactly that prefix; the
\* gateway is then called, with that name, if and only if a remote catalog
\* is cached; no other name is sent to the gateway.
McpPrefixDispatch ==
    dispatch.functionName # "" =>
        /\ dispatch.executeMcpTool <=> startsWith(dispatch.functionName, "mcp_")
        /\ dispatch.executeMcpTool =>
              dispatch.functionName = "mcp_" \o dispatch.toolName
        /\ dispatch.executeTool <=>
              (dispatch.executeMcpTool /\ ~toolsMCP.isNull)
        /\ dispatch.callTool => dispatch.executeTool
        /\ ~startsWith(dispatch.functionName, "mcp_") =>
              ~dispatch.executeTool /\ ~dispatch.callTool /\ dispatch.toolName = ""

McpPrefixDispatchWitness ==
    /\ dispatch.functionName = "mcp_mcp_x"
    /\ dispatch.toolName = "mcp_x"
    /\ dispatch.executeTool
    /\ pc = "executed"


(***************************************************************************)
(* Properties of the turn.                                                 *)
(***************************************************************************)
\* index of the user message that opened the current turn, 0 before the
\* first turn
TurnStart ==
    IF \E i \in 1..Len(messages) : messages[i].role = USER
    THEN CHOOSE i \in 1..Len(messages) :
            /\ messages[i].role = USER
            /\ \A j \in (i + 1)..Len(messages) : messages[j].role # USER
    ELSE 0

\* indexes of the tool messages of the current turn
TurnToolIndexes == { i \in ToolIndexes : i > TurnStart }

\* the position, among the tool messages of the turn, of the one at i
TurnRank(i) == Cardinality({ j \in TurnToolIndexes : j <= i })

\* C14: at most one request (chat or callTool) is unanswered at any time;
\* while the chat request of processFunctionCall is unanswered the history
\* and the request end with the result of the invocation just executed;
\* and the tool messages of a turn name, in order, the invocations the
\* model asked for in that turn, at most the last of them still missing.
OneOutstanding ==
    /\ Len(inflight) <= 1
    /\ (pc = "callTool") <=> (inflight = <<"callTool">>)
    /\ (pc = "chat") <=> (inflight = <<"chat">>)
    /\ inflight = <<"chat">> /\ depth > 0 =>
          /\ messages[Len(messages)] =
                ToolMessage(frame.functionCallId, frame.functionName,
                            frame.functionResult)
          /\ request.messages = messages
    /\ Cardinality(TurnToolIndexes) <= Len(turnCalls)
    /\ Len(turnCalls) <= Cardinality(TurnToolIndexes) + 1
    /\ \A i \in TurnToolIndexes :
          messages[i].name = turnCalls[TurnRank(i)].function.name
    /\ pc \in {"callTool", "executed"} =>
          /\ Len(turnCalls) = Cardinality(TurnToolIndexes) + 1
          /\ frame.functionCall = turnCalls[Len(turnCalls)]

OneOutstandingWitness ==
    /\ pc = "chat"
    /\ depth = 2
    /\ inflight = <<"chat">>
    /\ Len(turnCalls) = 2
    /\ turnCalls[1].function.name = "mcp_lcm"
    /\ turnCalls[2].function.name = "ghost"
    /\ dispatch.functionName = "ghost"
    /\ Cardinality(TurnToolIndexes) = 2

\* C15: every step leaves the history as it was or extends it: the history
\* before the step is a prefix of the history after it.
AppendOnly ==
    [][/\ Len(messages) <= Len(messages')
       /\ SubSeq(messages', 1, Len(messages)) = messages]_vars

AppendOnlyWitness ==
    /\ pc = "ask"
    /\ Len(messages) = 6
    /\ messages[2].role = USER
    /\ messages[3].role = USER
    /\ messages[5].role = TOOL
    /\ messages[5].content =
          "Error ejecutando la herramienta MCP lcm: Error: MCP error -32602: Tool not found"
    /\ messages[6] = TextMessage(ASSISTANT, "AB")

\* C16: an invocation whose name does not start with "mcp_" is answered
\* with "Función <name> no implementada" without any remote call; the
\* turn goes on: the pair of messages is pushed with that text as the tool
\* content and the model is asked again with them.
UnresolvedNotFatal ==
    frame.active /\ ~startsWith(frame.functionName, McpPrefix) =>
        LET n == Len(messages)
            text == "Función " \o frame.functionName \o " no implementada"
        IN  /\ pc \in {"executed", "chat", "response"}
            /\ ~dispatch.executeMcpTool
            /\ frame.functionResult = text
            /\ pc \in {"chat", "response"} =>
                  /\ messages[n - 1].role = ASSISTANT
                  /\ HasToolCalls(messages[n - 1])
                  /\ messages[n - 1].tool_calls[1].function.name =
                        frame.functionName
                  /\ messages[n] = ToolMessage(frame.functionCallId,
                                               frame.functionName, text)
                  /\ request.messages = messages

UnresolvedNotFatalWitness ==
    /\ pc = "ask"
    /\ Len(messages) = 5
    /\ messages[4] = ToolMessage("call_2", "ghost",
                                 "Función ghost no implementada")
    /\ messages[5] = TextMessage(ASSISTANT, "AB")

\* C17: when the call of a remote tool throws (executeMcpTool, executeTool
\* or callTool), executeFunction returns "Error ejecutando la herramienta
\* MCP <tool>: Error: <message>"; the turn goes on: that string is the
\* content of the tool message pushed and the model is asked again with
\* it; afterwards the loop is asking for input or ending on the user's
\* command.
ToolErrorNotFatal ==
    dispatch.caught # "" =>
        LET n == Len(messages)
            text == "Error ejecutando la herramienta MCP "
                        \o dispatch.toolName \o ": Error: " \o dispatch.caught
        IN  /\ pc \in {"executed", "chat", "response", "ask", "close", "done"}
            /\ pc = "executed" => frame.functionResult = text
            /\ pc \in {"chat", "response"} /\ frame.active =>
                  /\ messages[n] = ToolMessage(frame.functionCallId,
                                               frame.functionName, text)
                  /\ request.messages = messages
            /\ ~frame.active =>
                  \E i \in ToolIndexes : messages[i].content = text

ToolErrorNotFatalWitness ==
    /\ pc = "chat"
    /\ depth = 0
    /\ Len(messages) = 6
    /\ dispatch.caught = "MCP error -32602: Tool not found"
    /\ messages[4].content =
          "Error ejecutando la herramienta MCP mcp_x: Error: MCP error -32602: Tool not found"
    /\ messages[6].role = USER

\* C18: when the chat request sent for the user's message returns "", the
\* next step is the loop asking for input again, with the history left as
\* it is: the user message is its last message; agent.chat has not raised.
NoResponseEndsTurn ==
    [][(pc = "response" /\ depth = 0 /\ response = StringResult(""))
          => /\ pc' = "ask"
             /\ messages' = messages
             /\ TurnStart = Len(messages)
             /\ ~chatCall.raised]_vars

NoResponseEndsTurnWitness ==
    /\ pc = "ask"
    /\ response = StringResult("")
    /\ chatCall.kind = "status not 200"
    /\ turnCalls = <<>>
    /\ Len(messages) = 2
    /\ messages[2] = TextMessage(USER, "compute lcm of 4 and 6")

\* the turn of the scenario: [system, user "compute lcm of 4 and 6"], one
\* invocation of functionName with {numbers:[4,6]}, its messages pushed
LcmScenario(functionName) ==
    /\ TurnStart = 2
    /\ messages[2] = TextMessage(USER, "compute lcm of 4 and 6")
    /\ Len(turnCalls) >= 1
    /\ turnCalls[1].function.name = functionName
    /\ ParseArguments(turnCalls[1].function.arguments) = LcmArguments
    /\ Len(messages) >= 4

\* the scenario has ended with the model's text after the one invocation
LcmScenarioEnded ==
    /\ pc = "ask"
    /\ Len(turnCalls) = 1
    /\ response.type = "string"

\* C19: in the scenario with the invocation named lcm, the tool message
\* has the content "12", and when the model's next answer is a text the
\* history holds exactly 5 messages, the last one that text.
EndToEndLcm ==
    LcmScenario("lcm") =>
        /\ messages[3].role = ASSISTANT
        /\ HasToolCalls(messages[3])
        /\ messages[4].role = TOOL
        /\ messages[4].content = "12"
        /\ LcmScenarioEnded =>
              /\ Len(messages) = 5
              /\ messages[5] = TextMessage(ASSISTANT, response.value)

\* C19 as amended: the invocation named lcm gets "Función lcm no
\* implementada"; the invocation of the remote tool, named mcp_lcm, whose
\* callTool returns the text 12, gets the serialized payload; in both the
\* history holds exactly 5 messages once the model has answered with a
\* text, the last one that text.
EndToEndRemoteLcm ==
    /\ LcmScenario("lcm") =>
          messages[4] = ToolMessage("call_2", "lcm",
                                    "Función lcm no implementada")
    /\ (LcmScenario("mcp_lcm") /\ Len(turnCalls) = 1
           /\ dispatch.callTool /\ dispatch.caught = "") =>
          /\ dispatch.toolName = "lcm"
          /\ dispatch.args = LcmArguments
          /\ messages[4] =
                ToolMessage("call_2", "mcp_lcm",
                            "{\"content\":[{\"type\":\"text\",\"text\":\"12\"}]}")
    /\ \A name \in {"lcm", "mcp_lcm"} :
          LcmScenario(name) =>
              /\ messages[3].role = ASSISTANT
              /\ HasToolCalls(messages[3])
              /\ messages[3].tool_calls[1].function.name = name
              /\ messages[4].role = TOOL
              /\ LcmScenarioEnded =>
                    /\ Len(messages) = 5
                    /\ messages[5] = TextMessage(ASSISTANT, response.value)

EndToEndRemoteLcmWitness ==
    /\ LcmScenario("mcp_lcm")
    /\ LcmScenarioEnded
    /\ dispatch.callTool
    /\ dispatch.caught = ""
    /\ Len(messages) = 5
    /\ messages[5] = TextMessage(ASSISTANT, "AB")

\* C20: when a turn has ended with a non-empty text after k invocations,
\* the history holds, after the user message, k pairs (assistant message
\* with the invocation, tool message) in the order of the invocations,
\* then one assistant message with that text, and nothing else.
SequenceOfCalls ==
    (pc = "ask" /\ TurnStart > 0 /\ response.type = "string"
        /\ response.value # "") =>
        LET u == TurnStart
            k == Len(turnCalls)
        IN  /\ Len(messages) = u + 2 * k + 1
            /\ \A i \in 1..k :
                  /\ messages[u + 2 * i - 1].role = ASSISTANT
                  /\ HasToolCalls(messages[u + 2 * i - 1])
                  /\ messages[u + 2 * i - 1].tool_calls[1].function.name =
                        turnCalls[i].function.name
                  /\ messages[u + 2 * i].role = TOOL
                  /\ messages[u + 2 * i].name = turnCalls[i].function.name
            /\ messages[Len(messages)] = TextMessage(ASSISTANT, response.value)

SequenceOfCallsWitness ==
    /\ pc = "ask"
    /\ TurnStart = 2
    /\ Len(turnCalls) = 2
    /\ turnCalls[1].function.name = "ghost"
    /\ turnCalls[2].function.name = "mcp_lcm"
    /\ Len(messages) = 7
    /\ response = StringResult("AB")


(***************************************************************************)
(* Properties of the arguments.                                            *)
(***************************************************************************)
\* C22: whatever the model supplied as arguments, the value processFunctionCall
\* holds as functionArgs and the value handed to the remote tool are
\* mappings, and functionArgs is the empty mapping when the arguments are
\* null or a text that does not decode to a mapping.
ArgumentsAreMapping ==
    frame.active =>
        LET arguments == frame.functionCall.function.arguments
        IN  /\ frame.functionArgs.json = "object"
            /\ dispatch.executeMcpTool => dispatch.args.json = "object"
            /\ arguments \in { ObjectArguments(JSnull),
                                StringArguments(NumberText),
                                StringArguments(MalformedText) }
                  => frame.functionArgs = EmptyMapping


(***************************************************************************)
(* Properties of the recursion.                                            *)
(***************************************************************************)
\* C21: at any depth, a response that is a tool invocation is followed by one
\* more activation of processFunctionCall (depth + 1), and every executed
\* invocation by two more messages and one more request, so the turn goes
\* on and the history grows for as long as the model answers with function
\* calls; a response that is a text ("" when the request failed) ends the
\* turn.
NoDepthBound ==
    [][/\ (pc = "response" /\ response.type = "function_call"
            /\ HasFunction(response.function_call))
            => /\ depth' = depth + 1
               /\ pc' \in {"callTool", "executed"}
       /\ (pc = "executed")
            => /\ Len(messages') = Len(messages) + 2
               /\ depth' = depth
               /\ depth = Len(turnCalls)
               /\ pc' = "chat"
       /\ (pc = "response" /\ response.type = "string")
            => /\ depth' = 0
               /\ pc' = "ask"]_vars

NoDepthBoundWitness ==
    /\ pc = "executed"
    /\ depth = 2
    /\ Len(turnCalls) = 2
    /\ Len(messages) = 4
    /\ turnCalls[1] = turnCalls[2]


(***************************************************************************)
(* Properties of setup, cleanup and OllamaAgent.chat.                      *)
(***************************************************************************)
\* setup has returned and cleanup has not ended
SetupDone ==
    pc \in {"listModels", "ask", "chat", "response", "callTool", "executed",
            "close"}

\* C24: the process exits from setup only before MCPClient.connect has been
\* called, with nothing else done; once setup has returned, toolsMCP is
\* null unless the handshake succeeded (and also when listTools failed),
\* and every chat request sent with toolsMCP null carries the built-in
\* tools alone.
SetupDegrades ==
    /\ pc = "exited" =>
          /\ ~client
          /\ ~transport
          /\ link = "none"
          /\ messages = <<>>
          /\ request = NoRequest
    /\ SetupDone /\ link # "up" => toolsMCP.isNull
    /\ toolsMCP.isNull /\ request # NoRequest => request.tools = <<>>

SetupDegradesWitness ==
    /\ pc = "chat"
    /\ link = "up"
    /\ toolsMCP.isNull
    /\ request.tools = <<>>
    /\ Len(request.messages) = 2

\* C25: when main has ended, by cleanup or by the exit of setup, the
\* gateway holds neither a client nor a transport and is not connected.
GatewayReleasedAtEnd ==
    pc \in {"done", "exited"} => (Disconnected /\ link # "up")

\* C26: the step in which OllamaAgent.chat returns: the request it sent
\* carried the model, the history and getAllTools(toolsMCP); one request
\* was issued; the value returned is the decoded text or invocation; the
\* history, toolsMCP and the record of tool calls are as before.
ChatIsOneExchange ==
    [][pc = "chat" =>
          /\ request = [model |-> modelName, messages |-> messages,
                        tools |-> getAllTools(toolsMCP), stream |-> FALSE]
          /\ chatCall'.fetches = 1
          /\ response' = chatCall'.value
          /\ response'.type \in {"string", "function_call"}
          /\ messages' = messages
          /\ toolsMCP' = toolsMCP
          /\ dispatch' = dispatch
          /\ frame' = frame
          /\ request' = request
          /\ pc' = "response"]_vars

ChatIsOneExchangeWitness ==
    /\ pc = "response"
    /\ depth = 0
    /\ response.type = "function_call"
    /\ dispatch = NothingCalled
    /\ Len(messages) = 2
    /\ Len(request.tools) = 2
    /\ chatCall.fetches = 1


(***************************************************************************)
(* Properties of a response with several invocations.                      *)
(***************************************************************************)
\* the names of the invocations of SeveralCalls after the first
PassedOver == { "mcp_second", "ghost_third" }

\* C27: of a response whose lines carry several invocations, only the
\* first invocation of the first such line is returned by chat, executed
\* and written to the history; the others are never returned, never
\* executed and in no message.
OnlyFirstInvocation ==
    /\ (response.type = "function_call"
           /\ HasFunction(response.function_call)) =>
          response.function_call.function.name \notin PassedOver
    /\ \A i \in 1..Len(turnCalls) :
          turnCalls[i].function.name \notin PassedOver
    /\ frame.active => frame.functionName \notin PassedOver
    /\ dispatch.functionName \notin PassedOver
    /\ \A i \in CallIndexes :
          /\ Len(messages[i].tool_calls) = 1
          /\ messages[i].tool_calls[1].function.name \notin PassedOver
    /\ \A i \in ToolIndexes : messages[i].name \notin PassedOver
    /\ chatCall.fetches <= 1

OnlyFirstInvocationWitness ==
    /\ pc = "ask"
    /\ Len(turnCalls) = 1
    /\ turnCalls[1].id = "first"
    /\ dispatch.callTool
    /\ Len(messages) = 5
    /\ messages[3].tool_calls[1].function.name = "mcp_lcm"
    /\ messages[4].name = "mcp_lcm"
    /\ messages[5].role = ASSISTANT


(***************************************************************************)
(* Properties of the history and of the exit commands.                     *)
(***************************************************************************)
\* C29: in the history, once it exists: the first message and no other is
\* a system message; tool_calls is a field of assistant messages only;
\* tool_call_id and name are fields of the tool messages, of all of them
\* and of no other; an assistant message has tool_calls and null content,
\* or a text content and no tool_calls.
MessageShape ==
    messages # <<>> =>
        /\ messages[1].role = SYSTEM
        /\ \A i \in 2..Len(messages) : messages[i].role # SYSTEM
        /\ \A i \in 1..Len(messages) :
              LET m == messages[i]
              IN  /\ m.role \in {SYSTEM, USER, ASSISTANT, TOOL}
                  /\ "tool_calls" \in DOMAIN m => m.role = ASSISTANT
                  /\ "tool_call_id" \in DOMAIN m => m.role = TOOL
                  /\ "name" \in DOMAIN m => m.role = TOOL
                  /\ m.role = TOOL =>
                        {"tool_call_id", "name", "content"} \subseteq DOMAIN m
                  /\ m.role = ASSISTANT =>
                        IF "tool_calls" \in DOMAIN m
                        THEN m.content = null /\ Len(m.tool_calls) = 1
                        ELSE m.content # null

MessageShapeWitness ==
    /\ pc = "ask"
    /\ Len(messages) = 7
    /\ messages[2].role = USER
    /\ messages[3].content = null
    /\ messages[4].role = TOOL
    /\ messages[5] = TextMessage(ASSISTANT, "")
    /\ messages[6].role = USER
    /\ messages[7] = TextMessage(ASSISTANT, "AB")

\* C30: no exit command is ever in the history; while the request sent for
\* the user's line is unanswered the line is the last message and the
\* request carries it; once the loop has ended no request is unanswered,
\* and when cleanup has ended the gateway holds neither a client nor a
\* transport.
ExitEndsSession ==
    /\ \A i \in 1..Len(messages) :
          messages[i].role = USER =>
              toLowerCase(messages[i].content) \notin ExitCommands
    /\ pc = "chat" /\ depth = 0 =>
          /\ messages[Len(messages)].role = USER
          /\ request.messages = messages
          /\ inflight = <<"chat">>
    /\ pc \in {"close", "done"} => inflight = <<>>
    /\ pc = "done" /\ messages # <<>> => Disconnected

(***************************************************************************)
(* Properties of the servers.                                              *)
(***************************************************************************)
\* the integers the handler works on
Floors(numbers) == [i \in DOMAIN numbers |-> numbers[i].halves \div 2]

\* the least common multiple of a list of integers: 0 when one of them is
\* 0, else the least positive integer every one of them divides
LeastCommonMultiple(ns) ==
    IF \E i \in DOMAIN ns : ns[i] = 0 THEN 0
    ELSE CHOOSE m \in 1..(6 * 6 * 6) :
            /\ \A i \in DOMAIN ns : m % Magnitude(ns[i]) = 0
            /\ \A k \in 1..(m - 1) :
                  \E i \in DOMAIN ns : k % Magnitude(ns[i]) # 0

\* C31: the lcm tool returns for every list of at least two integers: the
\* loop of gcd always works on integers (so that it ends), and the result
\* returned is a non-negative integer, the least common multiple of the
\* floored numbers, whatever their order.
LcmToolCorrect ==
    server.tool = "lcm" =>
        /\ server.pc = "gcd" => server.b.kind = "int"
        /\ server.pc = "returned" =>
              /\ server.result.kind = "int"
              /\ server.result.n >= 0
              /\ server.result.n = LeastCommonMultiple(Floors(server.numbers))
              /\ ~server.isError

(***************************************************************************)
(* Properties of the recorded invocation.                                  *)
(***************************************************************************)
\* what the reader of the history gets from recorded arguments by decoding
\* them once: a structured value is what it is, a text is parsed
DecodedOnce(arguments) ==
    IF arguments.type = "object"
    THEN arguments.value
    ELSE LET parsed == JSONparse(arguments.value)
         IN  IF parsed.threw THEN [json |-> "undecodable"] ELSE parsed.value

\* C32: once processFunctionCall has pushed its two messages, decoding the
\* arguments recorded in the assistant message once yields the value that
\* was passed to the tool handler, whether the model gave a mapping or text.
RecordedDecodesToHandled ==
    (frame.active /\ depth > 0 /\ pc = "chat") =>
        LET recorded ==
                messages[Len(messages) - 1].tool_calls[1].function.arguments
        IN  DecodedOnce(recorded) = frame.functionArgs

(***************************************************************************)
(* Properties of the degraded mode.                                        *)
(***************************************************************************)
\* C33: with no remote catalog cached after setup, an invocation named
\* "mcp_" + n fails in OllamaAgent.executeMcpTool: MCPClient.executeTool and
\* client.callTool are not called and nothing is awaited from the gateway;
\* the failure text is the result, and the turn goes on: the pair of
\* messages is pushed with that text as the tool content and the model is
\* asked again with them.
DegradedRemoteCall ==
    (SetupDone /\ toolsMCP.isNull /\ frame.active
        /\ startsWith(frame.functionName, McpPrefix)) =>
        LET n == Len(messages)
            toolName == substring(frame.functionName, 4)
            text == "Error ejecutando la herramienta MCP " \o toolName
                        \o ": Error: " \o NotConnectedMessage
        IN  /\ pc \in {"executed", "chat", "response"}
            /\ "callTool" \notin {inflight[i] : i \in DOMAIN inflight}
            /\ dispatch.functionName = frame.functionName
            /\ dispatch.executeMcpTool
            /\ ~dispatch.executeTool
            /\ ~dispatch.callTool
            /\ dispatch.caught = NotConnectedMessage
            /\ frame.functionResult = text
            /\ pc \in {"chat", "response"} =>
                  /\ n = Len(request.messages)
                  /\ messages[n - 1].role = ASSISTANT
                  /\ HasToolCalls(messages[n - 1])
                  /\ messages[n - 1].tool_calls[1].function.name =
                        frame.functionName
                  /\ messages[n] = ToolMessage(frame.functionCallId,
                                               frame.functionName, text)
                  /\ request.messages = messages

DegradedRemoteCallWitness ==
    /\ pc = "ask"
    /\ toolsMCP.isNull
    /\ link = "up"
    /\ client
    /\ Len(messages) = 5
    /\ messages[3].tool_calls[1].function.name = "mcp_lcm"
    /\ messages[4] = ToolMessage("call_2", "mcp_lcm",
          "Error ejecutando la herramienta MCP lcm: Error: " \o NotConnectedMessage)
    /\ messages[5] = TextMessage(ASSISTANT, "AB")
    /\ ~dispatch.executeTool

(***************************************************************************)
(* Properties of processFunctionCall's error handling.                     *)
(***************************************************************************)
\* C34: in every history each assistant message with tool_calls has its
\* tool message right after it, so no turn ends on an unanswered one; and
\* the step that hands a function_call response to processFunctionCall
\* never ends the loop of interactiveChat: either the invocation is under
\* way with the history as it was, or (a record without function) the
\* loop asks again with the history as it was.
PairAtomic ==
    /\ [](\A i \in 1..Len(messages) :
             HasToolCalls(messages[i]) =>
                /\ i < Len(messages)
                /\ messages[i + 1].role = TOOL
                /\ messages[i + 1].tool_call_id = messages[i].tool_calls[1].id)
    /\ [][(pc = "response" /\ response.type = "function_call") =>
             /\ messages' = messages
             /\ IF HasFunction(response.function_call)
                THEN pc' \in {"callTool", "executed"}
                ELSE pc' = "ask" /\ depth' = 0]_vars
    /\ [][pc = "executed" =>
             /\ Len(messages') = Len(messages) + 2
             /\ HasToolCalls(messages'[Len(messages) + 1])
             /\ messages'[Len(messages) + 2].role = TOOL]_vars

PairAtomicWitness ==
    /\ pc = "ask"
    /\ response = FunctionCallResult(BareCall)
    /\ Len(messages) = 4
    /\ HasToolCalls(messages[3])
    /\ messages[4].role = TOOL
    /\ depth = 0

(***************************************************************************)
(* Properties of the cached catalog.                                       *)
(***************************************************************************)
\* C35: from the return of setup to the end of cleanup, a catalog is cached
\* only while the gateway holds its client and transport with the handshake
\* done; no step changes the cached catalog; every chat request advertises
\* the catalog built from it, the same in every request of the session.
CatalogCached ==
    /\ []((SetupDone /\ ~toolsMCP.isNull) => (Connected /\ transport))
    /\ [](request # NoRequest => request.tools = getAllTools(toolsMCP))
    /\ [][SetupDone => toolsMCP' = toolsMCP]_vars
    /\ [][(request # NoRequest /\ request' # request)
             => request'.tools = request.tools]_vars

CatalogCachedWitness ==
    /\ pc = "chat"
    /\ depth = 2
    /\ ~toolsMCP.isNull
    /\ Len(request.tools) = 2
    /\ request.tools[1].function.name = "mcp_mcp_x"
    /\ Len(request.messages) = 6

(***************************************************************************)
(* Properties of the gateway's handles.                                    *)
(***************************************************************************)
\* C36: whenever no connect() and no disconnect() is under way, this.client
\* and this.transport are both null or both set, whatever calls were made
\* and however the handshakes and the closes ended.
HandlesTogether ==
    gateway.pending = "none" => (client <=> transport)

HandlesTogetherWitness ==
    /\ gateway.pending = "none"
    /\ gateway.op = "connect"
    /\ gateway.returned = "false"
    /\ gateway.calls = 3
    /\ client
    /\ transport
    /\ link = "none"

(***************************************************************************)
(* Properties of the model selection.                                      *)
(***************************************************************************)
\* the chat is running: the loop of interactiveChat has been entered
Chatting == pc \in {"ask", "chat", "response", "callTool", "executed"}

\* C37: while the chat runs, some model was listed, and modelName is the
\* default model if it was listed and the first listed model otherwise;
\* every request names that model. The step that ends the listing with no
\* model (also when the listing failed) goes straight to cleanup, and
\* from then on there is no history and no chat request has been sent.
ModelSelection ==
    /\ [](Chatting =>
             /\ Len(models) > 0
             /\ Len(messages) > 0
             /\ modelName = IF \E i \in 1..Len(models) :
                                  models[i] = DEFAULT_MODEL
                            THEN DEFAULT_MODEL
                            ELSE models[1]
             /\ request # NoRequest => request.model = modelName)
    /\ []((pc \in {"close", "done"} /\ models = <<>>) =>
             /\ messages = <<>>
             /\ request = NoRequest
             /\ chatCall = NoChatCall
             /\ inflight = <<>>
             /\ turnCalls = <<>>)
    /\ [][(pc = "listModels" /\ models' = <<>>) =>
             /\ pc' \in {"close", "done"}
             /\ messages' = <<>>]_vars

ModelSelectionWitness ==
    /\ pc = "chat"
    /\ models = <<"llama3", DEFAULT_MODEL>>
    /\ modelName = DEFAULT_MODEL
    /\ request.model = DEFAULT_MODEL
    /\ Len(messages) = 2

(***************************************************************************)
(* Properties of the Go server.                                            *)
(***************************************************************************)
\* C38: the limit handed to GetCourses is a whole number from 1 to 10: it
\* is 10 when the limit argument is missing, no number, not above 0 or
\* above 10; the page handed over is 1 when the page argument is missing
\* or no number.
CoursesLimitInRange ==
    (server.tool = "Courses-List" /\ server.pc \in {"GetCourses", "returned"})
        => LET page == server.arguments.page
               limit == server.arguments.limit
           IN  /\ ~server.limit.wrapped
               /\ server.limit.n \in 1..10
               /\ (limit.kind # "number" \/ limit.halves <= 0
                      \/ limit.halves > 20) => server.limit = Uint(10)
               /\ page.kind # "number" => server.page = Uint(1)

(***************************************************************************)
(* Properties of get_random_quotes.                                        *)
(***************************************************************************)
\* the handler did what it does outside the range of counts: for a count
\* of 0 or less or above 10 an error result and no request; at most one
\* request; a failed request ends in the handler's return of an error
\* result
QuotesHandled ==
    server.tool = "get_random_quotes" =>
        LET halves == CountOrDefault(server.count)
        IN  /\ Len(server.requests) <= 1
            /\ (server.pc # "called" /\ (halves <= 0 \/ halves > 20)) =>
                  /\ server.pc = "returned"
                  /\ server.requests = <<>>
                  /\ server.result.isError
            /\ (server.outcome \in {"fetch throws", "not ok",
                                   "json throws"}) =>
                  /\ server.pc = "returned"
                  /\ server.result.isError

\* C39, as claimed: every request to the quotes API is made with a count
\* between 1 and 10; for a count of 0 or less or above 10 the result is an
\* error result and no request is made; a failed request gives an error
\* result and nothing is raised.
QuotesCountFromOne ==
    /\ QuotesHandled
    /\ server.tool = "get_random_quotes" =>
          \A i \in 1..Len(server.requests) :
             /\ server.requests[i].count >= 2
             /\ server.requests[i].count <= 20
====
